---- MODULE Spec2Model ----
(***************************************************************************)
(* Request-governance layer of the Searcb backend:                         *)
(*   - RateLimitingMiddleware (backend/app/middleware/rate_limiting.py):   *)
(*     sliding-window limiter on a Redis sorted set, with the in-process   *)
(*     memory_store as fallback when the health probe fails;               *)
(*   - CacheService (backend/app/core/cache.py): JSON cache over Redis.    *)
(*                                                                         *)
(* Time.  `clock` is real time counted in ticks, TicksPerSecond ticks to   *)
(* the second.  int(time.time()) is IntTime(clock) (floor to the second),  *)
(* time.time() is the tick count itself; a timestamp in seconds is         *)
(* compared with a float time by scaling it to ticks.                      *)
(***************************************************************************)
EXTENDS Integers, Sequences, FiniteSets, TLC

\* ------------------------------------------------------------------ bounds
TicksPerSecond == 2
MaxClock == 5
MaxRequests == 3
SmallN == 2
SmallW == 2
SmallCacheTtl == 3
MaxCacheCalls == 2

Handlers == {"h1", "h2"}
Clients == {"ip:1.2.3.4", "user:7"}
\* Mutant: /health is rate limited like any other path.
ExemptPathsWithoutHealth == {"/", "/favicon.ico"}

ExemptPaths == {"/health", "/", "/favicon.ico"}
Paths == {"/health", "/api/v1/pca"}
NoExpiry == -1

VARIABLES
    requests_per_minute,  \* self.requests_per_minute (N)
    func_rate_limit,      \* per path: what decorating its handler left
    window_size,          \* self.window_size, seconds (W)
    clock,                \* real time, in ticks
    redis_up,             \* whether the Redis server answers
    zsets,                \* Redis: rate_limit:<client> -> [set, expire_at]
    memory_store,         \* self.memory_store: defaultdict(list)
    pc,                   \* per handler: position in dispatch
    req,                  \* per handler: the request it serves
    resp,                 \* per handler: what dispatch has produced so far
    started,              \* number of requests started (bounds the run)
    log,                  \* history: per client, the ticks at which requests
                          \* were admitted during the last window_size seconds
    kv,                   \* Redis: the string keys written by CacheService
    ret,                  \* what the last CacheService call returned
    written,              \* history: per key, the value last stored by set
    gos,                  \* per caller: position in get_or_set
    gos_done,             \* history: results of the completed get_or_set calls
    producer_value,       \* what the producer given to get_or_set returns
    db,                   \* database: valor of the system configuration row
    admin                 \* per admin handler: its position and what it holds

limiterVars == <<requests_per_minute, window_size, func_rate_limit, clock, redis_up, zsets,
                 memory_store, pc, req, resp, started, log>>

limiterVarsButStarted == <<requests_per_minute, window_size, func_rate_limit, clock, redis_up,
                           zsets, memory_store, pc, req, resp, log>>

cacheVars == <<kv, ret, written>>

\* State of the callers of the cache.
gosVars == <<gos, gos_done, producer_value, db, admin>>


vars == <<limiterVars, cacheVars, gosVars>>

\* ------------------------------------------------------------------ time
IntTime(t) == t \div TicksPerSecond

\* ------------------------------------------------- Redis sorted-set commands
\* A sorted set is a set of [member, score]; a member occurs once.
ZAdd(z, member, score) ==
    {e \in z : e.member # member} \cup {[member |-> member, score |-> score]}

\* Mutant: the upper bound of the range taken as exclusive.
ZRemRangeByScoreExclusive(z, lo, hi) ==
    {e \in z : ~(lo <= e.score /\ e.score < hi)}

ZRemRangeByScore(z, lo, hi) == {e \in z : ~(lo <= e.score /\ e.score <= hi)}

ZCard(z) == Cardinality(z)

EmptyKey == [set |-> {}, expire_at |-> NoExpiry]

\* Redis drops a key whose set became empty, together with its expiry.
Normalize(k) == IF k.set = {} THEN EmptyKey ELSE k

\* Keys whose expiry has been reached no longer exist.
ExpireKeys(zs, now) ==
    [c \in DOMAIN zs |->
        IF zs[c].expire_at # NoExpiry /\ zs[c].expire_at <= now
        THEN EmptyKey ELSE zs[c]]

\* ------------------------------------------------------------ memory_store
\* defaultdict(list): reading a missing key yields [] and creates the key.
MemGet(ms, c) == IF c \in DOMAIN ms THEN ms[c] ELSE <<>>

MemPut(ms, c, list) == [k \in DOMAIN ms \cup {c} |-> IF k = c THEN list ELSE ms[k]]

\* ---------------------------------------------------------------- CacheService.health_check
HealthCheck == redis_up

\* Result of a limiter method: whether an exception escaped it, the value it
\* returned, and the two stores as it left them.
Result(exc, value, zs, ms) ==
    [exc |-> exc, value |-> value, zsets |-> zs, memory_store |-> ms]

\* Mutant: a timestamp exactly window_size old still counts.
IsRequestAllowedMemoryInclusive(c) ==
    LET window_start == clock - window_size * TicksPerSecond
        InWindow(timestamp) == timestamp * TicksPerSecond >= window_start
        kept == SelectSeq(MemGet(memory_store, c), InWindow)
    IN  Result(FALSE, Len(kept) < requests_per_minute, zsets,
               MemPut(memory_store, c, kept))

\* ------------------------------------- RateLimitingMiddleware._is_request_allowed_memory
IsRequestAllowedMemory(c) ==
    LET window_start == clock - window_size * TicksPerSecond
        InWindow(timestamp) == timestamp * TicksPerSecond > window_start
        kept == SelectSeq(MemGet(memory_store, c), InWindow)
    IN  Result(FALSE, Len(kept) < requests_per_minute, zsets,
               MemPut(memory_store, c, kept))

\* ---------------------------------------- RateLimitingMiddleware._is_request_allowed
\* The body of the try block; fault names the Redis command that raises.
IsRequestAllowedBody(c, fault) ==
    LET current_time == IntTime(clock)
        window_start == current_time - window_size
        pruned == [zsets EXCEPT ![c] =
                     Normalize([@ EXCEPT !.set = ZRemRangeByScore(@, 0, window_start)])]
    IN  IF HealthCheck
        THEN IF fault = "zremrangebyscore"
             THEN Result(TRUE, FALSE, zsets, memory_store)
             ELSE IF fault = "zcard"
             THEN Result(TRUE, FALSE, pruned, memory_store)
             ELSE Result(FALSE, ZCard(pruned[c].set) < requests_per_minute,
                         pruned, memory_store)
        ELSE IsRequestAllowedMemory(c)

\* try / except Exception: return True
IsRequestAllowed(c, fault) ==
    LET r == IsRequestAllowedBody(c, fault)
    IN  IF r.exc THEN [r EXCEPT !.exc = FALSE, !.value = TRUE] ELSE r

\* Mutant: the ledger is overwritten with the new timestamp.
RecordRequestBodyOverwrites(c, fault) ==
    LET current_time == IntTime(clock)
        added == [zsets EXCEPT ![c].set = ZAdd({}, current_time, current_time)]
        expiring == [added EXCEPT ![c].expire_at =
                       clock + window_size * TicksPerSecond]
    IN  IF HealthCheck
        THEN IF fault = "zadd"
             THEN Result(TRUE, FALSE, zsets, memory_store)
             ELSE IF fault = "expire"
             THEN Result(TRUE, FALSE, added, memory_store)
             ELSE Result(FALSE, TRUE, expiring, memory_store)
        ELSE Result(FALSE, TRUE, zsets,
                    MemPut(memory_store, c, <<current_time>>))

\* Mutant: one key for all clients.
RecordRequestBodyOneKey(c, fault) ==
    LET current_time == IntTime(clock)
        added == [zsets EXCEPT !["ip:1.2.3.4"].set = ZAdd(@, current_time, current_time)]
        expiring == [added EXCEPT !["ip:1.2.3.4"].expire_at =
                       clock + window_size * TicksPerSecond]
    IN  IF HealthCheck
        THEN Result(FALSE, TRUE, expiring, memory_store)
        ELSE Result(FALSE, TRUE, zsets,
                    MemPut(memory_store, "ip:1.2.3.4",
                           Append(MemGet(memory_store, "ip:1.2.3.4"), current_time)))

\* Mutant: the entry is added and the expiry of the key is left as it is.
RecordRequestBodyNoExpire(c, fault) ==
    LET current_time == IntTime(clock)
        added == [zsets EXCEPT ![c].set = ZAdd(@, current_time, current_time)]
    IN  IF HealthCheck
        THEN IF fault = "zadd"
             THEN Result(TRUE, FALSE, zsets, memory_store)
             ELSE Result(FALSE, TRUE, added, memory_store)
        ELSE Result(FALSE, TRUE, zsets,
                    MemPut(memory_store, c,
                           Append(MemGet(memory_store, c), current_time)))

\* -------------------------------------------- RateLimitingMiddleware._record_request
RecordRequestBody(c, fault) ==
    LET current_time == IntTime(clock)
        added == [zsets EXCEPT ![c].set = ZAdd(@, current_time, current_time)]
        expiring == [added EXCEPT ![c].expire_at =
                       clock + window_size * TicksPerSecond]
    IN  IF HealthCheck
        THEN IF fault = "zadd"
             THEN Result(TRUE, FALSE, zsets, memory_store)
             ELSE IF fault = "expire"
             THEN Result(TRUE, FALSE, added, memory_store)
             ELSE Result(FALSE, TRUE, expiring, memory_store)
        ELSE Result(FALSE, TRUE, zsets,
                    MemPut(memory_store, c,
                           Append(MemGet(memory_store, c), current_time)))

\* Mutant: no try / except around the body.
RecordRequestUncaught(c, fault) == RecordRequestBody(c, fault)

\* try / except Exception: log only
RecordRequest(c, fault) ==
    LET r == RecordRequestBody(c, fault)
    IN  IF r.exc THEN [r EXCEPT !.exc = FALSE] ELSE r

\* -------------------------------------- RateLimitingMiddleware._get_remaining_requests
Max(a, b) == IF a >= b THEN a ELSE b

GetRemainingRequestsBody(c, fault) ==
    IF HealthCheck
    THEN IF fault = "zcard"
         THEN Result(TRUE, 0, zsets, memory_store)
         ELSE Result(FALSE, Max(0, requests_per_minute - ZCard(zsets[c].set)),
                     zsets, memory_store)
    ELSE Result(FALSE,
                Max(0, requests_per_minute - Len(MemGet(memory_store, c))),
                zsets, MemPut(memory_store, c, MemGet(memory_store, c)))

\* try / except Exception: return self.requests_per_minute
GetRemainingRequests(c, fault) ==
    LET r == GetRemainingRequestsBody(c, fault)
    IN  IF r.exc THEN [r EXCEPT !.exc = FALSE, !.value = requests_per_minute] ELSE r

\* ------------------------------------------------ RateLimitingMiddleware.dispatch
NoReq == [client |-> "", path |-> ""]

\* status 0: no response yet; -1: header not set.  passed: call_next was called.
\* recorded: _record_request was called.  error: an exception other than the
\* HTTPException(429) left dispatch.
\* kept: the list built by the comprehension of _is_request_allowed_memory,
\* before it is assigned.
NoResp == [status |-> 0, retry_after |-> -1, limit |-> -1, remaining |-> -1,
           reset |-> -1, passed |-> FALSE, recorded |-> FALSE, error |-> FALSE,
           kept |-> <<>>]

Finished == {"idle", "done", "rejected", "failed"}

CheckFaults == {"none", "zremrangebyscore", "zcard"}
RecordFaults == {"none", "zadd", "expire"}
RemainingFaults == {"none", "zcard"}

\* A request arrives and is handed to dispatch.
StartRequest(h, c, p) ==
    /\ pc[h] \in Finished
    /\ started' = started + 1
    /\ pc' = [pc EXCEPT ![h] = "dispatch"]
    /\ req' = [req EXCEPT ![h] = [client |-> c, path |-> p]]
    /\ resp' = [resp EXCEPT ![h] = NoResp]
    /\ UNCHANGED <<cacheVars, gosVars, requests_per_minute, window_size, func_rate_limit, clock, redis_up, zsets,
                   memory_store, log>>

Start(h, c, p) ==
    /\ started < MaxRequests
    /\ StartRequest(h, c, p)

\* dispatch, lines 27-28: exempt paths go straight to call_next.
DispatchExempt(h) ==
    /\ pc[h] = "dispatch"
    /\ req[h].path \in ExemptPaths
    /\ pc' = [pc EXCEPT ![h] = "call_next_exempt"]
    /\ resp' = [resp EXCEPT ![h].passed = TRUE]
    /\ UNCHANGED <<cacheVars, gosVars, requests_per_minute, window_size, func_rate_limit, clock, redis_up, zsets,
                   memory_store, req, started, log>>

\* Mutant: the attempt is counted before the limit is checked.
DispatchCheckCountsAttempt(h, fault) ==
    /\ pc[h] = "dispatch"
    /\ req[h].path \notin ExemptPaths
    /\ LET counted == RecordRequest(req[h].client, fault)
           before == Len(MemGet(memory_store, req[h].client))
                       + ZCard(zsets[req[h].client].set)
       IN  /\ zsets' = counted.zsets
           /\ memory_store' = counted.memory_store
           /\ IF before < requests_per_minute
              THEN /\ pc' = [pc EXCEPT ![h] = "record"]
                   /\ resp' = resp
              ELSE /\ pc' = [pc EXCEPT ![h] = "rejected"]
                   /\ resp' = [resp EXCEPT ![h].status = 429,
                                           ![h].retry_after = window_size]
    /\ UNCHANGED <<cacheVars, gosVars, requests_per_minute, window_size, func_rate_limit, clock,
                   redis_up, req, started, log>>

\* dispatch, lines 31-40: identify the client, ask _is_request_allowed, raise
\* HTTPException(429, Retry-After: window_size) when it answers False.
DispatchCheck(h, fault) ==
    /\ pc[h] = "dispatch"
    /\ req[h].path \notin ExemptPaths
    /\ LET r == IsRequestAllowed(req[h].client, fault)
       IN  /\ zsets' = r.zsets
           /\ memory_store' = r.memory_store
           /\ IF r.exc
              THEN /\ pc' = [pc EXCEPT ![h] = "failed"]
                   /\ resp' = [resp EXCEPT ![h].error = TRUE, ![h].status = 500]
              ELSE IF r.value
              THEN /\ pc' = [pc EXCEPT ![h] = "record"]
                   /\ resp' = resp
              ELSE /\ pc' = [pc EXCEPT ![h] = "rejected"]
                   /\ resp' = [resp EXCEPT ![h].status = 429,
                                           ![h].retry_after = window_size]
    /\ UNCHANGED <<cacheVars, gosVars, requests_per_minute, window_size, func_rate_limit, clock, redis_up, req,
                   started, log>>

\* dispatch, line 43: _record_request.
DispatchRecord(h, fault) ==
    /\ pc[h] = "record"
    /\ LET r == RecordRequest(req[h].client, fault)
       IN  /\ zsets' = r.zsets
           /\ memory_store' = r.memory_store
           /\ IF r.exc
              THEN /\ pc' = [pc EXCEPT ![h] = "failed"]
                   /\ resp' = [resp EXCEPT ![h].error = TRUE, ![h].status = 500,
                                           ![h].recorded = TRUE]
              ELSE /\ pc' = [pc EXCEPT ![h] = "call_next"]
                   /\ resp' = [resp EXCEPT ![h].recorded = TRUE, ![h].passed = TRUE]
    /\ log' = [log EXCEPT ![req[h].client] = Append(@, clock)]
    /\ UNCHANGED <<cacheVars, gosVars, requests_per_minute, window_size, func_rate_limit, clock, redis_up, req, started>>

\* dispatch, lines 28 and 46: the business logic answers.
CallNextReturns(h) ==
    /\ \/ /\ pc[h] = "call_next"
          /\ pc' = [pc EXCEPT ![h] = "remaining"]
       \/ /\ pc[h] = "call_next_exempt"
          /\ pc' = [pc EXCEPT ![h] = "done"]
    /\ resp' = [resp EXCEPT ![h].status = 200]
    /\ UNCHANGED <<cacheVars, gosVars, requests_per_minute, window_size, func_rate_limit, clock, redis_up, zsets,
                   memory_store, req, started, log>>

\* dispatch, lines 49-54: the rate-limit headers.
DispatchRemaining(h, fault) ==
    /\ pc[h] = "remaining"
    /\ LET r == GetRemainingRequests(req[h].client, fault)
       IN  /\ zsets' = r.zsets
           /\ memory_store' = r.memory_store
           /\ IF r.exc
              THEN /\ pc' = [pc EXCEPT ![h] = "failed"]
                   /\ resp' = [resp EXCEPT ![h].error = TRUE, ![h].status = 500]
              ELSE /\ pc' = [pc EXCEPT ![h] = "done"]
                   /\ resp' = [resp EXCEPT ![h].limit = requests_per_minute,
                                           ![h].remaining = r.value,
                                           ![h].reset = IntTime(clock) + window_size]
    /\ UNCHANGED <<cacheVars, gosVars, requests_per_minute, window_size, func_rate_limit, clock, redis_up, req,
                   started, log>>

\* ======================================================================
\* CacheService (backend/app/core/cache.py)
\* ======================================================================

\* ------------------------------------------------------- Python values
\* A value handed to the cache: its kind, its text (str(value) for a scalar)
\* and, for a dict, its items.  A dict key is int, str or tuple.
Py(kind, text, items) == [kind |-> kind, text |-> text, items |-> items]

PyNone == Py("none", "", {})
PyStr(text) == Py("str", text, {})
PyInt(text) == Py("int", text, {})
PyDateTime(text) == Py("datetime", text, {})
PyDict(items) == Py("dict", "", items)
Item(keytype, keytext, value) ==
    [key |-> [type |-> keytype, text |-> keytext], value |-> value]

PyValues ==
    { PyStr("v"), PyInt("7"), PyNone,
      PyDateTime("2024-01-01 00:00:00"),
      PyDict({Item("str", "1", "Compra")}),
      PyDict({Item("int", "1", "Compra")}),
      PyDict({Item("tuple", "(1, 2)", "Compra")}) }

\* ------------------------------------------------------------ JSON text
Json(j, text, members) == [j |-> j, text |-> text, members |-> members]

\* json.dumps(value, default=str): str, int and None have a JSON form; a dict
\* becomes an object whose names are the keys as text (a key that is neither
\* str nor a number raises TypeError); anything else goes through str().
JsonDumps(value) ==
    CASE value.kind = "str"  -> [exc |-> FALSE, text |-> Json("string", value.text, {})]
      [] value.kind = "int"  -> [exc |-> FALSE, text |-> Json("number", value.text, {})]
      [] value.kind = "none" -> [exc |-> FALSE, text |-> Json("null", "", {})]
      [] value.kind = "dict" ->
            IF \E i \in value.items : i.key.type \notin {"str", "int"}
            THEN [exc |-> TRUE, text |-> Json("null", "", {})]
            ELSE [exc |-> FALSE,
                  text |-> Json("object", "",
                                {[name |-> i.key.text, value |-> i.value] :
                                    i \in value.items})]
      [] OTHER -> [exc |-> FALSE, text |-> Json("string", value.text, {})]

\* json.loads(text): an object comes back as a dict with str keys.
JsonLoads(text) ==
    CASE text.j = "string" -> [exc |-> FALSE, value |-> PyStr(text.text)]
      [] text.j = "number" -> [exc |-> FALSE, value |-> PyInt(text.text)]
      [] text.j = "null"   -> [exc |-> FALSE, value |-> PyNone]
      [] text.j = "object" ->
            [exc |-> FALSE,
             value |-> PyDict({Item("str", m.name, m.value) : m \in text.members})]
      [] OTHER -> [exc |-> TRUE, value |-> PyNone]

\* ------------------------------------------------------------------ keys
\* A key and a pattern are sequences of characters.
Keys == { <<"a", "1">>, <<"a", "2">>, <<"b", "1">> }
Patterns == { <<"a", "*">>, <<"b", "*">>, <<"*">>, <<"a", "?">>, <<"a", "1">> }

\* Redis KEYS: glob matching with * and ?.
RECURSIVE GlobMatch(_, _)
GlobMatch(pattern, key) ==
    IF pattern = <<>> THEN key = <<>>
    ELSE IF Head(pattern) = "*"
         THEN \/ GlobMatch(Tail(pattern), key)
              \/ key # <<>> /\ GlobMatch(pattern, Tail(key))
    ELSE IF Head(pattern) = "?"
         THEN key # <<>> /\ GlobMatch(Tail(pattern), Tail(key))
    ELSE key # <<>> /\ Head(key) = Head(pattern)
                    /\ GlobMatch(Tail(pattern), Tail(key))

NoEntry == [present |-> FALSE, payload |-> Json("null", "", {}), expire_at |-> NoExpiry]

ExpireEntries(store, now) ==
    [k \in DOMAIN store |->
        IF store[k].present /\ store[k].expire_at <= now THEN NoEntry ELSE store[k]]

\* A Redis command of CacheService raises when the server does not answer or
\* when `fault` names it.
Fails(command, fault) == ~redis_up \/ fault = command

\* self.default_ttl
default_ttl == SmallCacheTtl

\* Result of a CacheService method: whether an exception escaped it, what it
\* returned (value, flag or count according to the method), and the store.
CacheResult(exc, value, flag, count, store) ==
    [exc |-> exc, value |-> value, flag |-> flag, count |-> count, kv |-> store]

Raised == CacheResult(TRUE, PyNone, FALSE, 0, kv)

\* --------------------------------------------------------- CacheService.get
CacheGetBody(key, fault) ==
    IF Fails("get", fault) THEN Raised
    ELSE IF kv[key].present
         THEN LET d == JsonLoads(kv[key].payload)
              IN  IF d.exc THEN Raised
                  ELSE CacheResult(FALSE, d.value, FALSE, 0, kv)
         ELSE CacheResult(FALSE, PyNone, FALSE, 0, kv)

\* Mutant: no try / except around the body.
CacheGetUncaught(key, fault) == CacheGetBody(key, fault)

\* except Exception: return None
CacheGet(key, fault) ==
    LET r == CacheGetBody(key, fault)
    IN  IF r.exc THEN [r EXCEPT !.exc = FALSE, !.value = PyNone] ELSE r

\* --------------------------------------------------------- CacheService.set
\* Mutant: the ttl is handed to Redis as if it were minutes.
CacheSetBodyMinutes(key, value, ttl, fault) ==
    LET d == JsonDumps(value)
        used == IF ttl = 0 THEN default_ttl ELSE ttl
    IN  IF d.exc \/ Fails("setex", fault) THEN Raised
        ELSE CacheResult(FALSE, PyNone, TRUE, 0,
                 [kv EXCEPT ![key] =
                     [present |-> TRUE, payload |-> d.text,
                      expire_at |-> clock + used * 60 * TicksPerSecond]])

\* ttl 0 stands for None as well: `ttl or self.default_ttl`.
CacheSetBody(key, value, ttl, fault) ==
    LET d == JsonDumps(value)
        used == IF ttl = 0 THEN default_ttl ELSE ttl
    IN  IF d.exc \/ Fails("setex", fault) THEN Raised
        ELSE CacheResult(FALSE, PyNone, TRUE, 0,
                 [kv EXCEPT ![key] =
                     [present |-> TRUE, payload |-> d.text,
                      expire_at |-> clock + used * TicksPerSecond]])

\* except Exception: return False
CacheSet(key, value, ttl, fault) ==
    LET r == CacheSetBody(key, value, ttl, fault)
    IN  IF r.exc THEN [r EXCEPT !.exc = FALSE, !.flag = FALSE] ELSE r

\* ------------------------------------------------------ CacheService.delete
CacheDeleteBody(key, fault) ==
    IF Fails("delete", fault) THEN Raised
    ELSE CacheResult(FALSE, PyNone, kv[key].present, 0, [kv EXCEPT ![key] = NoEntry])

CacheDelete(key, fault) ==
    LET r == CacheDeleteBody(key, fault)
    IN  IF r.exc THEN [r EXCEPT !.exc = FALSE, !.flag = FALSE] ELSE r

\* ------------------------------------------------------ CacheService.exists
CacheExistsBody(key, fault) ==
    IF Fails("exists", fault) THEN Raised
    ELSE CacheResult(FALSE, PyNone, kv[key].present, 0, kv)

CacheExists(key, fault) ==
    LET r == CacheExistsBody(key, fault)
    IN  IF r.exc THEN [r EXCEPT !.exc = FALSE, !.flag = FALSE] ELSE r

\* ----------------------------------------------- CacheService.clear_pattern
\* KEYS pattern, then DEL of the keys found, on the store given.
ClearPatternOn(store, pattern, fault) ==
    LET keys == {k \in DOMAIN store : store[k].present /\ GlobMatch(pattern, k)}
        raised == CacheResult(TRUE, PyNone, FALSE, 0, store)
    IN  IF Fails("keys", fault) THEN raised
        ELSE IF keys # {}
             THEN IF Fails("delete", fault) THEN raised
                  ELSE CacheResult(FALSE, PyNone, FALSE, Cardinality(keys),
                           [k \in DOMAIN store |->
                               IF k \in keys THEN NoEntry ELSE store[k]])
             ELSE CacheResult(FALSE, PyNone, FALSE, 0, store)

\* Mutant: every key of the store is removed, whatever the pattern.
ClearPatternBodyFlushAll(pattern, fault) ==
    ClearPatternOn(kv, <<"*">>, fault)

ClearPatternBody(pattern, fault) ==
    ClearPatternOn(kv, pattern, fault)

\* except Exception: return 0
ClearPattern(pattern, fault) ==
    LET r == ClearPatternBody(pattern, fault)
    IN  IF r.exc THEN [r EXCEPT !.exc = FALSE, !.count = 0] ELSE r

\* ------------------------------------------------------ delete_cache_pattern
\* The same commands on redis_client; returns None.
DeleteCachePattern(pattern, fault) ==
    LET r == ClearPatternBody(pattern, fault)
    IN  IF r.exc THEN [r EXCEPT !.exc = FALSE, !.count = 0]
        ELSE [r EXCEPT !.count = 0]

\* ------------------------------------------------- calls by the business logic
NoRet == [op |-> "none", arg |-> <<>>, given |-> PyNone, ttl |-> 0, exc |-> FALSE,
          value |-> PyNone, flag |-> FALSE, count |-> 0, reachable |-> FALSE]

NoWrite == [has |-> FALSE, value |-> PyNone, ttl |-> 0, at |-> 0]

\* What a call leaves in ret: the method, its key or pattern, the value and ttl
\* given to set, what the call returned, and whether Redis answered every
\* command of the call.
Returned(op, arg, r, fault) ==
    [op |-> op, arg |-> arg, given |-> PyNone, ttl |-> 0, exc |-> r.exc,
     value |-> r.value, flag |-> r.flag, count |-> r.count,
     reachable |-> (redis_up /\ fault = "none")]

\* The history forgets the keys a call removed.
Forget(store) ==
    [k \in DOMAIN written |->
        IF kv[k].present /\ ~store[k].present THEN NoWrite ELSE written[k]]

CacheCall ==
    /\ started < MaxCacheCalls
    /\ started' = started + 1
    /\ UNCHANGED <<requests_per_minute, window_size, func_rate_limit, clock, redis_up, zsets,
                   memory_store, pc, req, resp, log, gosVars>>

GetCall(key, fault) ==
    /\ CacheCall
    /\ LET r == CacheGet(key, fault)
       IN  /\ kv' = r.kv
           /\ ret' = Returned("get", key, r, fault)
    /\ written' = written

SetCall(key, value, ttl, fault) ==
    /\ CacheCall
    /\ LET r == CacheSet(key, value, ttl, fault)
       IN  /\ kv' = r.kv
           /\ ret' = [Returned("set", key, r, fault) EXCEPT !.given = value,
                                                             !.ttl = ttl]
           /\ written' = IF r.flag
                         THEN [written EXCEPT ![key] =
                                 [has |-> TRUE, value |-> value, ttl |-> ttl,
                                  at |-> clock]]
                         ELSE written

DeleteCall(key, fault) ==
    /\ CacheCall
    /\ LET r == CacheDelete(key, fault)
       IN  /\ kv' = r.kv
           /\ ret' = Returned("delete", key, r, fault)
           /\ written' = Forget(r.kv)

ExistsCall(key, fault) ==
    /\ CacheCall
    /\ LET r == CacheExists(key, fault)
       IN  /\ kv' = r.kv
           /\ ret' = Returned("exists", key, r, fault)
    /\ written' = written

ClearPatternCall(pattern, fault) ==
    /\ CacheCall
    /\ LET r == ClearPattern(pattern, fault)
       IN  /\ kv' = r.kv
           /\ ret' = Returned("clear_pattern", pattern, r, fault)
           /\ written' = Forget(r.kv)

DeleteCachePatternCall(pattern, fault) ==
    /\ CacheCall
    /\ LET r == DeleteCachePattern(pattern, fault)
       IN  /\ kv' = r.kv
           /\ ret' = Returned("delete_cache_pattern", pattern, r, fault)
           /\ written' = Forget(r.kv)

\* ------------------------------------------------- CacheService.get_or_set
Callers == {"t1", "t2"}

\* producer: the value the func given to the call returns.
Idle == [pc |-> "idle", key |-> <<>>, producer |-> PyNone]

\* A call get_or_set(key, func) whose func returns `value`.
GosBeginWith(t, key, value) ==
    /\ gos[t].pc = "idle"
    /\ started < MaxCacheCalls
    /\ started' = started + 1
    /\ gos' = [gos EXCEPT ![t] = [pc |-> "get", key |-> key, producer |-> value]]
    /\ UNCHANGED <<limiterVarsButStarted, cacheVars, gos_done, producer_value, db, admin>>

GosBegin(t, key) == GosBeginWith(t, key, producer_value)

\* value = await self.get(key); return it unless it is None.
GosGet(t, fault) ==
    /\ gos[t].pc = "get"
    /\ LET r == CacheGet(gos[t].key, fault)
       IN  IF r.value # PyNone
           THEN /\ gos' = [gos EXCEPT ![t] = Idle]
                /\ gos_done' = Append(gos_done,
                       [key |-> gos[t].key, result |-> r.value,
                        produced |-> FALSE, at |-> clock,
                        caller |-> t, producer |-> gos[t].producer])
           ELSE /\ gos' = [gos EXCEPT ![t].pc = "produce"]
                /\ gos_done' = gos_done
    /\ UNCHANGED <<limiterVars, cacheVars, producer_value, db, admin>>

\* Mutant: the call returns what a get of the key gives after the set.
GosProduceReturnsCached(t, fault) ==
    /\ gos[t].pc = "produce"
    /\ LET result == gos[t].producer
           r == CacheSet(gos[t].key, result, 0, fault)
       IN  /\ kv' = r.kv
           /\ written' = IF r.flag
                         THEN [written EXCEPT ![gos[t].key] =
                                 [has |-> TRUE, value |-> result, ttl |-> 0,
                                  at |-> clock]]
                         ELSE written
           /\ gos_done' = Append(gos_done,
                  [key |-> gos[t].key,
                   result |-> IF r.kv[gos[t].key].present
                              THEN JsonLoads(r.kv[gos[t].key].payload).value
                              ELSE PyNone,
                   produced |-> TRUE, at |-> clock,
                   caller |-> t, producer |-> gos[t].producer])
    /\ gos' = [gos EXCEPT ![t] = Idle]
    /\ UNCHANGED <<limiterVars, ret, producer_value, db, admin>>

\* result = func(); await self.set(key, result, ttl); return result.
GosProduce(t, fault) ==
    /\ gos[t].pc = "produce"
    /\ LET result == gos[t].producer
           r == CacheSet(gos[t].key, result, 0, fault)
       IN  /\ kv' = r.kv
           /\ written' = IF r.flag
                         THEN [written EXCEPT ![gos[t].key] =
                                 [has |-> TRUE, value |-> result, ttl |-> 0,
                                  at |-> clock]]
                         ELSE written
           /\ gos_done' = Append(gos_done,
                  [key |-> gos[t].key, result |-> result,
                   produced |-> TRUE, at |-> clock,
                   caller |-> t, producer |-> gos[t].producer])
    /\ gos' = [gos EXCEPT ![t] = Idle]
    /\ UNCHANGED <<limiterVars, ret, producer_value, db, admin>>

\* ------------------------------------------------------------- environment
\* The history keeps the admissions younger than window_size seconds: an older
\* one shares no window of that length with an admission still to come.
Recent(lg, now) ==
    LET Young(at) == now - at < window_size * TicksPerSecond
    IN  [c \in DOMAIN lg |-> SelectSeq(lg[c], Young)]

\* Time passes; Redis removes the keys whose expiry is reached.
Advance ==
    /\ clock' = clock + 1
    /\ zsets' = ExpireKeys(zsets, clock + 1)
    /\ log' = Recent(log, clock + 1)
    /\ kv' = ExpireEntries(kv, clock + 1)
    /\ UNCHANGED <<requests_per_minute, window_size, func_rate_limit, redis_up, memory_store,
                   pc, req, resp, started, ret, written, gosVars>>

Tick ==
    /\ clock < MaxClock
    /\ Advance

RedisGoesDown ==
    /\ redis_up
    /\ redis_up' = FALSE
    /\ UNCHANGED <<cacheVars, gosVars, requests_per_minute, window_size, func_rate_limit, clock, zsets, memory_store,
                   pc, req, resp, started, log>>

RedisComesBack ==
    /\ ~redis_up
    /\ redis_up' = TRUE
    /\ UNCHANGED <<cacheVars, gosVars, requests_per_minute, window_size, func_rate_limit, clock, zsets, memory_store,
                   pc, req, resp, started, log>>

\* ------------------------------------------------------------ specifications
\* RateLimitingMiddleware.__init__ with the limits of the configuration.
InitLedger(N, W) ==
    /\ requests_per_minute = N
    /\ window_size = W
    /\ clock = 0
    /\ zsets = [c \in Clients |-> EmptyKey]
    /\ memory_store = <<>>
    /\ pc = [h \in Handlers |-> "idle"]
    /\ req = [h \in Handlers |-> NoReq]
    /\ resp = [h \in Handlers |-> NoResp]
    /\ started = 0
    /\ log = [c \in Clients |-> <<>>]

\* A handler without decorator: no _rate_limit attribute.
NoDecorator == [stored |-> FALSE, rate |-> 0, raised |-> FALSE]

NoRouteLimits == [p \in Paths |-> NoDecorator]

InitLimiter(N, W) ==
    /\ InitLedger(N, W)
    /\ func_rate_limit = NoRouteLimits

\* CacheService.__init__ on an empty Redis.
\* Admin handlers at rest, the configuration row holding its first value.
AdminIdle == [pc |-> "idle", key |-> <<>>, response |-> PyNone]

InitAdmin ==
    /\ db = "a"
    /\ admin = [h \in {"listar_configuracoes", "atualizar_configuracao"} |-> AdminIdle]

InitCache ==
    /\ kv = [k \in Keys |-> NoEntry]
    /\ ret = NoRet
    /\ written = [k \in Keys |-> NoWrite]
    /\ gos = [t \in Callers |-> Idle]
    /\ gos_done = <<>>

Init ==
    /\ InitLimiter(SmallN, SmallW)
    /\ InitCache
    /\ producer_value = PyNone
    /\ InitAdmin
    /\ redis_up \in BOOLEAN

\* One worker serving the requests of one client one after another (a request
\* is answered before the next is taken), Redis going down and coming back at
\* any moment, and Redis commands failing after a successful probe.
Worker == {"h1"}

Next ==
    \/ \E h \in Worker, p \in Paths : Start(h, "ip:1.2.3.4", p)
    \/ \E h \in Worker : DispatchExempt(h)
    \/ \E h \in Worker, f \in CheckFaults : DispatchCheck(h, f)
    \/ \E h \in Worker, f \in RecordFaults : DispatchRecord(h, f)
    \/ \E h \in Worker : CallNextReturns(h)
    \/ \E h \in Worker, f \in RemainingFaults : DispatchRemaining(h, f)
    \/ Tick
    \/ RedisGoesDown
    \/ RedisComesBack

Spec == Init /\ [][Next]_vars

\* The same worker serving two clients, with a backend that stays as it started
\* (reachable, or unreachable) and whose commands never fail.
NextSeq ==
    \/ \E h \in Worker, c \in Clients, p \in Paths : Start(h, c, p)
    \/ \E h \in Worker : DispatchExempt(h)
    \/ \E h \in Worker : DispatchCheck(h, "none")
    \/ \E h \in Worker : DispatchRecord(h, "none")
    \/ \E h \in Worker : CallNextReturns(h)
    \/ \E h \in Worker : DispatchRemaining(h, "none")
    \/ Tick

SpecSeq == Init /\ [][NextSeq]_vars

\* Concurrent handlers of one client on a reachable backend: the steps of
\* dispatch interleave freely.
InitConc ==
    /\ InitLimiter(SmallN, SmallW)
    /\ InitCache
    /\ producer_value = PyNone
    /\ InitAdmin
    /\ redis_up = TRUE

\* Enough requests to exceed the limit by the number of handlers.
StartBurst(h, c, p) ==
    /\ started < SmallN + Cardinality(Handlers)
    /\ StartRequest(h, c, p)

NextConc ==
    \/ \E h \in Handlers, p \in Paths : StartBurst(h, "ip:1.2.3.4", p)
    \/ \E h \in Handlers : DispatchExempt(h)
    \/ \E h \in Handlers : DispatchCheck(h, "none")
    \/ \E h \in Handlers : DispatchRecord(h, "none")
    \/ \E h \in Handlers : CallNextReturns(h)
    \/ \E h \in Handlers : DispatchRemaining(h, "none")
    \/ Tick

SpecConc == InitConc /\ [][NextConc]_vars

\* The scenario of the specification's section 8: N = 3, W = 60 s, one client
\* whose requests arrive at t = 0, 1, 2, 3 and 61 s, each answered at the
\* second it arrives; the backend stays as it started.
ScenarioTimes == {0, 1, 2, 3, 61}

ScenarioDue == Cardinality({t \in ScenarioTimes : t * TicksPerSecond <= clock})

InitScenario ==
    /\ InitLimiter(3, 60)
    /\ InitCache
    /\ producer_value = PyNone
    /\ InitAdmin
    /\ redis_up \in BOOLEAN

ScenarioStart(h) ==
    /\ started < ScenarioDue
    /\ \E t \in ScenarioTimes : clock = t * TicksPerSecond
    /\ StartRequest(h, "ip:1.2.3.4", "/api/v1/pca")

ScenarioTick ==
    /\ started = ScenarioDue
    /\ \A h \in Handlers : pc[h] \in Finished
    /\ clock < 61 * TicksPerSecond
    /\ Advance

NextScenario ==
    \/ \E h \in Worker : ScenarioStart(h)
    \/ \E h \in Worker : DispatchCheck(h, "none")
    \/ \E h \in Worker : DispatchRecord(h, "none")
    \/ \E h \in Worker : CallNextReturns(h) /\ pc[h] = "call_next"
    \/ \E h \in Worker : DispatchRemaining(h, "none")
    \/ ScenarioTick

SpecScenario == InitScenario /\ [][NextScenario]_vars

\* The business logic calling CacheService, Redis going down and coming back,
\* commands failing.
NextCache ==
    \/ \E k \in Keys, f \in {"none", "get"} : GetCall(k, f)
    \/ \E k \in Keys, v \in PyValues, ttl \in 0..2, f \in {"none", "setex"} :
          SetCall(k, v, ttl, f)
    \/ \E k \in Keys, f \in {"none", "delete"} : DeleteCall(k, f)
    \/ \E k \in Keys, f \in {"none", "exists"} : ExistsCall(k, f)
    \/ \E p \in Patterns, f \in {"none", "keys", "delete"} : ClearPatternCall(p, f)
    \/ \E p \in Patterns, f \in {"none", "keys", "delete"} :
          DeleteCachePatternCall(p, f)
    \/ Tick
    \/ RedisGoesDown
    \/ RedisComesBack

SpecCache == Init /\ [][NextCache]_vars

\* The governance layer as a whole: the worker dispatching requests and the
\* business logic calling CacheService, over a Redis that goes down, comes back
\* and fails in the middle of an operation.
NextGov ==
    \/ Next
    \/ \E f \in {"none", "get"} : GetCall(<<"a", "1">>, f)
    \/ \E v \in PyValues, ttl \in 0..1, f \in {"none", "setex"} :
          SetCall(<<"a", "1">>, v, ttl, f)
    \/ \E f \in {"none", "delete"} : DeleteCall(<<"a", "1">>, f)
    \/ \E f \in {"none", "exists"} : ExistsCall(<<"a", "1">>, f)
    \/ \E f \in {"none", "keys", "delete"} : ClearPatternCall(<<"a", "*">>, f)
    \/ \E f \in {"none", "keys", "delete"} : DeleteCachePatternCall(<<"a", "*">>, f)

SpecGov == Init /\ [][NextGov]_vars

\* get_or_set called twice or more, one call after the other, on a reachable
\* backend, with a producer that returns any of the values.
InitGetOrSet ==
    /\ InitLimiter(SmallN, SmallW)
    /\ InitCache
    /\ producer_value \in PyValues
    /\ InitAdmin
    /\ redis_up = TRUE

NextGetOrSet ==
    \/ \E t \in Callers, k \in Keys :
          /\ \A u \in Callers : gos[u].pc = "idle"
          /\ GosBegin(t, k)
    \/ \E t \in Callers : GosGet(t, "none")
    \/ \E t \in Callers : GosProduce(t, "none")
    \/ Tick

SpecGetOrSet == InitGetOrSet /\ [][NextGetOrSet]_vars

\* ======================================================================
\* Properties
\* ======================================================================

\* C1.  Requests issued one after another, backend without failure: in no
\* interval of window_size seconds are more than requests_per_minute requests
\* of one client admitted (once N are admitted inside a window, the next one
\* inside it is rejected), whatever the spacing of the requests.  log[c] holds
\* exactly the admissions of c of the last window_size seconds.
C1_AtMostNPerWindow ==
    \A c \in Clients : Len(log[c]) <= requests_per_minute

\* The outcomes of the scenario, with the remaining value of the request at
\* t = 61 s as parameter: requests 1-3 are admitted and the third reports
\* remaining 0, request 4 is rejected with Retry-After 60, request 5 is
\* admitted and reports `last`.
ScenarioOutcome(last) ==
    \A h \in Worker :
        /\ started \in 1..3 => pc[h] # "rejected"
        /\ (started = 3 /\ pc[h] = "done") => resp[h].remaining = 0
        /\ (started = 4 /\ pc[h] # "dispatch") =>
               /\ pc[h] = "rejected"
               /\ resp[h].status = 429
               /\ resp[h].retry_after = 60
        /\ started = 5 => pc[h] # "rejected"
        /\ (started = 5 /\ pc[h] = "done") => resp[h].remaining = last

\* C2 (as claimed).  N = 3, W = 60: requests at t = 0, 1, 2 are admitted, the
\* third reports remaining 0; t = 3 is rejected with Retry-After 60; t = 61 is
\* admitted and reports remaining 2.
C2_ScenarioAsClaimed == ScenarioOutcome(2)

\* C2 (amended).  The same, but the request at t = 61 reports remaining 1: the
\* request of t = 2 is still inside the window (2 > 61 - 60).
C2_ScenarioRemainingOne == ScenarioOutcome(1)

C2_Witness ==
    /\ started = 5
    /\ pc["h1"] = "done"
    /\ clock = 61 * TicksPerSecond

\* C3.  A client whose last recorded request is at least window_size seconds
\* old (log[c] is empty) is admitted by _is_request_allowed and is told
\* requests_per_minute by _get_remaining_requests, whichever is called first.
C3_IdleClientHasFullQuota ==
    [][\A h \in Handlers :
          (req[h].client \in Clients /\ log[req[h].client] = <<>>) =>
             /\ (pc[h] = "dispatch" /\ pc'[h] \in {"record", "rejected"})
                    => pc'[h] = "record"
             /\ (pc[h] = "remaining" /\ pc'[h] = "done")
                    => resp'[h].remaining = requests_per_minute]_vars

\* Timestamps of a memory_store list that lie inside the window ending now.
InWindowCount(list) ==
    Cardinality({i \in 1..Len(list) :
                    list[i] * TicksPerSecond > clock - window_size * TicksPerSecond})

\* C4.  While the health probe fails, _is_request_allowed and _record_request
\* do not raise and work on memory_store alone: the request is rejected when
\* the client has requests_per_minute in-window entries there and admitted
\* otherwise, and recording appends one entry to the client's list.
C4_FallbackDecidesAndRecords ==
    [][\A h \in Handlers :
          (~redis_up /\ req[h].path \notin ExemptPaths /\ pc'[h] # pc[h]) =>
             LET c == req[h].client
                 list == MemGet(memory_store, c)
             IN  /\ pc[h] = "dispatch" =>
                       /\ pc'[h] = IF InWindowCount(list) < requests_per_minute
                                   THEN "record" ELSE "rejected"
                       /\ zsets' = zsets
                 /\ pc[h] = "record" =>
                       /\ pc'[h] = "call_next"
                       /\ memory_store'[c] = Append(list, IntTime(clock))
                       /\ zsets' = zsets]_vars

C4_Witness ==
    \E h \in Handlers :
        /\ ~redis_up
        /\ pc[h] = "rejected"
        /\ zsets[req[h].client].set = {}
        /\ Len(MemGet(memory_store, req[h].client)) = requests_per_minute

\* The timestamps a store holds for a client.
ZScores(c) == {e.score : e \in zsets[c].set}
MemStamps(ms, c) == {MemGet(ms, c)[i] : i \in 1..Len(MemGet(ms, c))}

\* C6.  A request that _is_request_allowed refuses is answered 429 with
\* Retry-After = window_size, is neither recorded nor passed to the business
\* logic, and adds no timestamp to the ledger of any client in either store.
C6_RejectionAddsNothing ==
    [][\A h \in Handlers :
          /\ (pc[h] = "dispatch" /\ pc'[h] = "rejected") =>
                /\ resp'[h].status = 429
                /\ resp'[h].retry_after = window_size
                /\ ~resp'[h].recorded /\ ~resp'[h].passed
                /\ log' = log
                /\ \A c \in Clients :
                      /\ {e.score : e \in zsets'[c].set} \subseteq ZScores(c)
                      /\ MemStamps(memory_store', c) \subseteq MemStamps(memory_store, c)
                      /\ Len(MemGet(memory_store', c)) <= Len(MemGet(memory_store, c))
          /\ (pc[h] = "rejected" /\ pc'[h] # pc[h]) => pc'[h] = "dispatch"]_vars

C6_Witness ==
    \E h \in Handlers :
        /\ pc[h] = "rejected"
        /\ resp[h].status = 429
        /\ redis_up
        /\ ZCard(zsets[req[h].client].set) = requests_per_minute

\* C7.  A request for /health, / or /favicon.ico goes straight to the business
\* logic, also when its client is over the limit, and no step of it touches a
\* ledger of either store.
C7_ExemptPathsBypass ==
    [][\A h \in Handlers :
          (req[h].path \in {"/health", "/", "/favicon.ico"} /\ pc'[h] # pc[h]
             /\ pc[h] \notin Finished) =>
                /\ pc[h] = "dispatch" => (pc'[h] = "call_next_exempt" /\ resp'[h].passed)
                /\ pc[h] = "call_next_exempt" => pc'[h] = "done"
                /\ pc[h] \in {"dispatch", "call_next_exempt"}
                /\ zsets' = zsets
                /\ memory_store' = memory_store
                /\ log' = log]_vars

C7_Witness ==
    \E h \in Handlers :
        /\ req[h].path = "/health"
        /\ pc[h] = "done"
        /\ resp[h].status = 200
        /\ \/ ZCard(zsets[req[h].client].set) >= requests_per_minute
           \/ InWindowCount(MemGet(memory_store, req[h].client)) >= requests_per_minute

\* C5.  Whatever the backend does (reachable, unreachable, failing in the
\* middle of an operation), no limiter method and no CacheService method lets
\* an exception escape, and dispatch surfaces nothing but the 429 rejection.
C5_NothingRaises ==
    /\ ~ret.exc
    /\ \A h \in Handlers :
          /\ pc[h] # "failed"
          /\ ~resp[h].error
          /\ resp[h].status \in {0, 200, 429}

\* A CacheService call met a failing backend and returned, and a request went
\* through although EXPIRE failed after ZADD.
C5_Witness ==
    /\ ret.op # "none"
    /\ ~ret.reachable
    /\ \E h \in Handlers :
          /\ pc[h] = "done"
          /\ resp[h].recorded
          /\ zsets[req[h].client].set # {}
          /\ zsets[req[h].client].expire_at = NoExpiry

\* C8.  K handlers of one client interleaving _is_request_allowed and
\* _record_request on a reachable backend admit at most N + K - 1 requests
\* inside one window.
C8_SlackBoundedByHandlers ==
    \A c \in Clients :
        Len(log[c]) <= requests_per_minute + Cardinality(Handlers) - 1

\* C9.  With a reachable backend, set(k, v, ttl) with ttl > 0 succeeds for every
\* value json.dumps accepts; a get(k) before ttl seconds have passed returns a
\* value equal to v, and a get(k) after them, with no set in between, returns
\* None.
C9_SetThenGetRoundTrip ==
    [][(started' = started + 1 /\ ret'.reachable) =>
          /\ (ret'.op = "set" /\ ret'.ttl > 0 /\ ~JsonDumps(ret'.given).exc)
                => ret'.flag
          /\ (ret'.op = "get" /\ written[ret'.arg].has /\ written[ret'.arg].ttl > 0)
                => LET w == written[ret'.arg]
                   IN  IF clock < w.at + w.ttl * TicksPerSecond
                       THEN ret'.value = w.value
                       ELSE ret'.value = PyNone]_vars

\* C10.  Two get_or_set calls on one key, one after the other, on a reachable
\* backend and with no expiry or deletion between them, invoke the producer at
\* most once in total and return the same value.
C10_ProducerOnceSameValue ==
    \A i, j \in 1..Len(gos_done) :
        (/\ i < j
         /\ gos_done[i].key = gos_done[j].key
         /\ gos_done[j].at - gos_done[i].at < default_ttl * TicksPerSecond)
        => /\ ~(gos_done[i].produced /\ gos_done[j].produced)
           /\ gos_done[i].result = gos_done[j].result

\* ======================================================================
\* clear_pattern on a Redis that already holds entries
\* ======================================================================

\* Patterns of the form prefix*, the prefix made of literal characters.
PrefixPatterns == { <<"a", "*">>, <<"b", "*">>, <<"c", "*">>, <<"*">> }

\* What Redis may hold under a key when the process starts.
StoredEntries ==
    {NoEntry} \cup
    { [present |-> TRUE, payload |-> Json("string", "v", {}),
       expire_at |-> e * TicksPerSecond] : e \in 1..2 }

InitClear ==
    /\ InitLimiter(SmallN, SmallW)
    /\ kv \in [Keys -> StoredEntries]
    /\ ret = NoRet
    /\ written = [k \in Keys |-> NoWrite]
    /\ gos = [t \in Callers |-> Idle]
    /\ gos_done = <<>>
    /\ producer_value = PyNone
    /\ InitAdmin
    /\ redis_up = TRUE

NextClear ==
    \/ \E p \in PrefixPatterns : ClearPatternCall(p, "none")
    \/ \E p \in PrefixPatterns : DeleteCachePatternCall(p, "none")
    \/ Tick

SpecClear == InitClear /\ [][NextClear]_vars

StartsWith(key, prefix) ==
    /\ Len(key) >= Len(prefix)
    /\ SubSeq(key, 1, Len(prefix)) = prefix

\* C11.  With a reachable backend and nothing else writing, a call
\* clear_pattern(prefix*) leaves no key that starts with prefix, leaves every
\* other key with its payload and expiry as it was, and returns the number of
\* keys it removed (0 when none matched).
C11_ClearPatternRemovesPrefix ==
    [][(started' = started + 1 /\ ret'.op = "clear_pattern" /\ ret'.reachable) =>
          LET prefix == SubSeq(ret'.arg, 1, Len(ret'.arg) - 1)
          IN  /\ \A k \in Keys :
                    IF StartsWith(k, prefix) THEN ~kv'[k].present
                                             ELSE kv'[k] = kv[k]
              /\ ret'.count =
                    Cardinality({k \in Keys : kv[k].present /\ StartsWith(k, prefix)})]_vars

\* Two keys under the prefix were removed and a key with another prefix is
\* still stored.
C11_Witness ==
    /\ ret.op = "clear_pattern"
    /\ ret.arg = <<"a", "*">>
    /\ ret.count = 2
    /\ kv[<<"b", "1">>].present
    /\ ~kv[<<"a", "1">>].present /\ ~kv[<<"a", "2">>].present

\* ======================================================================
\* Invalidation after a write (api/endpoints/pca.py, api/endpoints/admin.py)
\* ======================================================================

\* The keys under which PCA data is cached, cut at the places where the
\* patterns of the invalidation end: pca_list_<hash>_<page>_<size>,
\* pca_stats_<ano>_<orgao>, pca_<id> and admin_dashboard.
PcaIds == {"7", "8"}

PcaKeys ==
    { <<"pca_", "list_", "h_1_10">>, <<"pca_", "stats_", "2024_x">>,
      <<"pca_", "7">>, <<"pca_", "8">>, <<"admin_dashboard">> }

\* The dashboard payload: a non-empty dict that holds the total of PCAs.
Dashboard == PyDict({Item("str", "pcas", "1")})

\* `if cached_result:` takes None, "", 0 and {} as a miss.
Truthy(value) ==
    CASE value.kind = "none" -> FALSE
      [] value.kind = "str"  -> value.text # ""
      [] value.kind = "int"  -> value.text # "0"
      [] value.kind = "dict" -> value.items # {}
      [] OTHER -> TRUE

\* obter_dashboard: get_cache, and on a miss set_cache(key, dashboard, ttl=900).
ObterDashboard ==
    /\ CacheCall
    /\ LET key == <<"admin_dashboard">>
           g == CacheGet(key, "none")
           s == CacheSet(key, Dashboard, 900, "none")
       IN  IF Truthy(g.value)
           THEN /\ kv' = kv
                /\ ret' = Returned("obter_dashboard", key, g, "none")
                /\ written' = written
           ELSE /\ kv' = s.kv
                /\ ret' = Returned("obter_dashboard", key, s, "none")
                /\ written' = IF s.flag
                              THEN [written EXCEPT ![key] =
                                      [has |-> TRUE, value |-> Dashboard,
                                       ttl |-> 900, at |-> clock]]
                              ELSE written

\* listar_pcas: get_cache, and on a miss set_cache(key, result, expire=300).
\* set_cache has no parameter `expire`: the call raises TypeError before
\* anything is stored.
ListarPcas ==
    /\ CacheCall
    /\ LET key == <<"pca_", "list_", "h_1_10">>
           g == CacheGet(key, "none")
       IN  /\ kv' = kv
           /\ ret' = IF Truthy(g.value)
                     THEN Returned("listar_pcas", key, g, "none")
                     ELSE [Returned("listar_pcas", key, g, "none") EXCEPT !.exc = TRUE]
    /\ written' = written

\* invalidate_pca_cache(pca_id): delete_cache_pattern on pca_list_*, on
\* pca_stats_* and, when an id is given, on pca_<id>.  pca_id "" is None.
InvalidatePcaCache(pca_id) ==
    /\ CacheCall
    /\ LET r1 == ClearPatternOn(kv, <<"pca_", "list_", "*">>, "none")
           r2 == ClearPatternOn(r1.kv, <<"pca_", "stats_", "*">>, "none")
           r3 == IF pca_id # ""
                 THEN ClearPatternOn(r2.kv, <<"pca_", pca_id>>, "none")
                 ELSE r2
       IN  /\ kv' = r3.kv
           /\ ret' = [Returned("invalidate_pca_cache", <<pca_id>>, r3, "none")
                        EXCEPT !.exc = FALSE, !.count = 0]
           /\ written' = Forget(r3.kv)

InitPca ==
    /\ InitLimiter(SmallN, SmallW)
    /\ kv = [k \in PcaKeys |-> NoEntry]
    /\ ret = NoRet
    /\ written = [k \in PcaKeys |-> NoWrite]
    /\ gos = [t \in Callers |-> Idle]
    /\ gos_done = <<>>
    /\ producer_value = PyNone
    /\ InitAdmin
    /\ redis_up \in BOOLEAN

NextPca ==
    \/ ObterDashboard
    \/ ListarPcas
    \/ \E id \in PcaIds \cup {""} : InvalidatePcaCache(id)
    \/ Tick
    \/ RedisGoesDown
    \/ RedisComesBack

SpecPca == InitPca /\ [][NextPca]_vars

\* The entries that embed a PCA: the lists, the statistics that count PCAs
\* (the admin dashboard among them) and the detail entry of that PCA.
EmbedsPca(key, pca_id) ==
    \/ StartsWith(key, <<"pca_", "list_">>)
    \/ StartsWith(key, <<"pca_", "stats_">>)
    \/ key = <<"admin_dashboard">>
    \/ pca_id # "" /\ key = <<"pca_", pca_id>>

\* C12.  After the invalidation that follows a create, update or delete of a
\* PCA has completed on a reachable backend, with no other request running, no
\* cache entry that embeds the PCA remains: not its lists, not its detail
\* entry, not the statistics that count PCAs, the admin dashboard included.
C12_NoEntryEmbedsChangedPca ==
    [][(started' = started + 1 /\ ret'.op = "invalidate_pca_cache" /\ ret'.reachable) =>
          \A k \in PcaKeys : EmbedsPca(k, ret'.arg[1]) => ~kv'[k].present]_vars

\* ======================================================================
\* Client identification (rate_limiting.py _get_client_id, security.py)
\* ======================================================================

\* A token: whether it parses as a JWT, whether its signature verifies with
\* the secret, whether its exp lies in the past, and its sub claim ("" when
\* the payload has none).
Tokens ==
    [wellformed : BOOLEAN, signed : BOOLEAN, expired : BOOLEAN, sub : {"7", "8", ""}]

\* The authorization header: absent, or a scheme prefix followed by a token
\* (an empty header has scheme "" and no token at all).
NoToken == [wellformed |-> FALSE, signed |-> FALSE, expired |-> FALSE, sub |-> ""]

Authorizations ==
    { [present |-> FALSE, empty |-> FALSE, scheme |-> "", token |-> NoToken],
      [present |-> TRUE, empty |-> TRUE, scheme |-> "", token |-> NoToken] }
    \cup [present : {TRUE}, empty : {FALSE}, scheme : {"Bearer ", "Basic ", ""},
          token : Tokens]

\* request.client is None for some transports.
RemoteAddresses == {"1.2.3.4", "none"}

HttpRequests == [authorization : Authorizations, client : RemoteAddresses]

\* jwt.decode: the token parses, its signature verifies and it has not expired.
JwtDecodes(token) == token.wellformed /\ token.signed /\ ~token.expired

\* Mutant: the signature is not looked at.
VerifyTokenUnsigned(token, jwt_error_defined) ==
    IF token.wellformed /\ ~token.expired
    THEN [exc |-> "none", sub |-> token.sub]
    ELSE [exc |-> "HTTPException", sub |-> ""]

\* SecurityService.verify_token: the payload, or HTTPException(401).  The
\* clause `except jwt.JWTError` names an attribute that the jwt module may
\* not have; evaluating it then raises AttributeError instead.
VerifyToken(token, jwt_error_defined) ==
    IF JwtDecodes(token) THEN [exc |-> "none", sub |-> token.sub]
    ELSE IF token.wellformed /\ token.signed /\ token.expired
         THEN [exc |-> "HTTPException", sub |-> ""]
    ELSE IF jwt_error_defined
         THEN [exc |-> "HTTPException", sub |-> ""]
         ELSE [exc |-> "AttributeError", sub |-> ""]

\* `except Exception` catches both: HTTPException and AttributeError derive
\* from Exception.
IsException(exc) == exc \in {"HTTPException", "AttributeError"}

\* _get_client_id, lines 62-67: the body of the try.
GetClientIdTry(request, jwt_error_defined) ==
    LET authorization == request.authorization
        \* authorization.replace("Bearer ", ""): another prefix stays in the
        \* token, which then does not parse.
        token == IF authorization.scheme = "Basic "
                 THEN [authorization.token EXCEPT !.wellformed = FALSE]
                 ELSE authorization.token
        payload == VerifyToken(token, jwt_error_defined)
    IN  IF payload.exc # "none"
        THEN [exc |-> payload.exc, value |-> ""]
        ELSE [exc |-> "none",
              value |-> "user:" \o (IF payload.sub # "" THEN payload.sub ELSE "unknown")]

\* _get_client_id: user:<sub> when the header is non-empty and the token
\* verifies; an exception of the try is passed over and the address of the
\* peer is used.
GetClientId(request, jwt_error_defined) ==
    LET authorization == request.authorization
        t == GetClientIdTry(request, jwt_error_defined)
        client_ip == IF request.client # "none" THEN request.client ELSE "unknown"
        by_ip == [exc |-> FALSE, value |-> "ip:" \o client_ip]
    IN  IF authorization.present /\ ~authorization.empty
        THEN IF t.exc = "none" THEN [exc |-> FALSE, value |-> t.value]
             ELSE IF IsException(t.exc) THEN by_ip
             ELSE [exc |-> TRUE, value |-> ""]
        ELSE by_ip

\* dispatch, line 31: the identification of one request.
Identify(request, jwt_error_defined) ==
    /\ started < MaxRequests
    /\ started' = started + 1
    /\ LET r == GetClientId(request, jwt_error_defined)
       IN  ret' = [NoRet EXCEPT !.op = "_get_client_id", !.arg = <<request>>,
                                !.exc = r.exc, !.value = PyStr(r.value)]
    /\ UNCHANGED <<requests_per_minute, window_size, func_rate_limit, clock, redis_up, zsets,
                   memory_store, pc, req, resp, log, kv, written, gosVars>>

NextIdent ==
    \/ \E request \in HttpRequests, d \in BOOLEAN : Identify(request, d)
    \/ Tick

SpecIdent == Init /\ [][NextIdent]_vars

\* The request carries a credential that verifies.
Verifies(request) ==
    /\ request.authorization.present
    /\ ~request.authorization.empty
    /\ request.authorization.scheme # "Basic "
    /\ request.authorization.token.wellformed
    /\ request.authorization.token.signed
    /\ ~request.authorization.token.expired

IpOf(request) ==
    "ip:" \o (IF request.client = "none" THEN "unknown" ELSE request.client)

\* C13.  For every request _get_client_id returns an id and does not raise;
\* the id is user:<sub> only when the credential verifies, and it is
\* ip:<remote-address> when the credential is missing, malformed, expired or
\* wrongly signed.
C13_IdentificationNeverRaises ==
    ret.op = "_get_client_id" =>
        LET request == ret.arg[1]
        IN  /\ ~ret.exc
            /\ ret.value.kind = "str"
            /\ IF Verifies(request)
               THEN ret.value.text =
                        "user:" \o (IF request.authorization.token.sub = ""
                                    THEN "unknown"
                                    ELSE request.authorization.token.sub)
               ELSE ret.value.text = IpOf(request)

\* An expired but otherwise valid bearer token was identified by address.
C13_Witness ==
    /\ ret.op = "_get_client_id"
    /\ ret.arg[1].authorization.scheme = "Bearer "
    /\ ret.arg[1].authorization.token =
          [wellformed |-> TRUE, signed |-> TRUE, expired |-> TRUE, sub |-> "7"]
    /\ ret.value.text = "ip:1.2.3.4"

\* ======================================================================
\* Counts of the window ledger
\* ======================================================================

\* The entries of the ledger of client c, in the store the limiter uses now,
\* whose timestamp t satisfies t > now - window_size.
FreshCount(c) ==
    IF redis_up
    THEN Cardinality({e \in zsets[c].set : e.score > IntTime(clock) - window_size})
    ELSE InWindowCount(MemGet(memory_store, c))

\* C14.  Every count of a ledger that the limiter uses (to admit or reject)
\* or reports (as the remaining value) counts only the timestamps t with
\* t > now - window_size: the decision is `count < requests_per_minute` and
\* the remaining value is requests_per_minute - count for that count.
C14_CountsOnlyInWindow ==
    [][\A h \in Handlers :
          req[h].client \in Clients =>
             /\ (pc[h] = "dispatch" /\ pc'[h] \in {"record", "rejected"}) =>
                    (pc'[h] = "record") =
                        (FreshCount(req[h].client) < requests_per_minute)
             /\ (pc[h] = "remaining" /\ pc'[h] = "done") =>
                    resp'[h].remaining =
                        Max(0, requests_per_minute - FreshCount(req[h].client))]_vars

\* ======================================================================
\* DomainCacheService (backend/app/core/cache.py)
\* ======================================================================

\* settings.DOMAIN_CACHE_TTL, seconds.
DOMAIN_CACHE_TTL == 86400

DomainTables == {"modalidades_contratacao", "situacoes_contratacao", "tipos_contrato"}

DomainKey(name) == <<"domain:", name>>

DomainKeys == {DomainKey(name) : name \in DomainTables}

\* The fixed source of each table: a dict with int keys (its first two rows).
DomainSource(name) ==
    CASE name = "modalidades_contratacao" ->
            PyDict({Item("int", "1", "Concorrencia"), Item("int", "2", "Tomada de Precos")})
      [] name = "situacoes_contratacao" ->
            PyDict({Item("int", "1", "Planejamento"), Item("int", "2", "Publicada")})
      [] name = "tipos_contrato" ->
            PyDict({Item("int", "1", "Compra"), Item("int", "2", "Servico")})

\* get_modalidades_contratacao / get_situacoes_contratacao / get_tipos_contrato:
\* the cached value when it is truthy, otherwise the fixed table, stored with
\* the domain TTL.
GetDomainTable(name) ==
    /\ CacheCall
    /\ LET key == DomainKey(name)
           cached == CacheGet(key, "none")
           stored == CacheSet(key, DomainSource(name), DOMAIN_CACHE_TTL, "none")
       IN  IF Truthy(cached.value)
           THEN /\ kv' = kv
                /\ ret' = [Returned("get_domain_table", key, cached, "none")
                             EXCEPT !.flag = TRUE]
                /\ written' = written
           ELSE /\ kv' = stored.kv
                /\ ret' = [Returned("get_domain_table", key, stored, "none")
                             EXCEPT !.value = DomainSource(name), !.flag = FALSE]
                /\ written' = IF stored.flag
                              THEN [written EXCEPT ![key] =
                                      [has |-> TRUE, value |-> DomainSource(name),
                                       ttl |-> DOMAIN_CACHE_TTL, at |-> clock]]
                              ELSE written

InitDomain ==
    /\ InitLimiter(SmallN, SmallW)
    /\ kv = [k \in DomainKeys |-> NoEntry]
    /\ ret = NoRet
    /\ written = [k \in DomainKeys |-> NoWrite]
    /\ gos = [t \in Callers |-> Idle]
    /\ gos_done = <<>>
    /\ producer_value = PyNone
    /\ InitAdmin
    /\ redis_up \in BOOLEAN

NextDomain ==
    \/ \E name \in DomainTables : GetDomainTable(name)
    \/ Tick
    \/ RedisGoesDown
    \/ RedisComesBack

SpecDomain == InitDomain /\ [][NextDomain]_vars

\* C15.  A getter of a domain table returns the mapping of the fixed source,
\* with the same keys and labels, whether it is served from the cache (hit,
\* ret.flag) or rebuilt (miss); on a miss with a reachable backend the table
\* is stored under its domain: key with the domain TTL.
C15_DomainTableSameOnHitAndMiss ==
    [][(started' = started + 1 /\ ret'.op = "get_domain_table") =>
          \E name \in DomainTables :
             /\ ret'.arg = DomainKey(name)
             /\ ret'.value = DomainSource(name)
             /\ (~ret'.flag /\ ret'.reachable) =>
                    /\ kv'[DomainKey(name)].present
                    /\ kv'[DomainKey(name)].expire_at =
                          clock + DOMAIN_CACHE_TTL * TicksPerSecond]_vars

\* ======================================================================
\* Entries that an invalidation could not remove
\* ======================================================================

\* The ttl Redis is given for a ttl argument: `ttl or self.default_ttl`.
UsedTtl(ttl) == IF ttl = 0 THEN default_ttl ELSE ttl

\* The store after set(k, "v", ttl) at clock 0 for some of the keys.
InitStale ==
    /\ InitLimiter(SmallN, SmallW)
    /\ \E ttls \in [Keys -> {-1, 1, 2}] :
          /\ kv = [k \in Keys |->
                     IF ttls[k] = -1 THEN NoEntry
                     ELSE [present |-> TRUE, payload |-> Json("string", "v", {}),
                           expire_at |-> UsedTtl(ttls[k]) * TicksPerSecond]]
          /\ written = [k \in Keys |->
                          IF ttls[k] = -1 THEN NoWrite
                          ELSE [has |-> TRUE, value |-> PyStr("v"),
                                ttl |-> ttls[k], at |-> 0]]
    /\ ret = NoRet
    /\ gos = [t \in Callers |-> Idle]
    /\ gos_done = <<>>
    /\ producer_value = PyNone
    /\ InitAdmin
    /\ redis_up \in BOOLEAN

NextStale ==
    \/ \E k \in Keys : GetCall(k, "none")
    \/ \E ttl \in 0..2 : SetCall(<<"a", "1">>, PyStr("v"), ttl, "none")
    \/ \E p \in {<<"a", "*">>, <<"*">>}, f \in {"none", "keys", "delete"} :
          ClearPatternCall(p, f)
    \/ \E p \in {<<"a", "*">>, <<"*">>}, f \in {"none", "keys", "delete"} :
          DeleteCachePatternCall(p, f)
    \/ Tick
    \/ RedisGoesDown
    \/ RedisComesBack

SpecStale == InitStale /\ [][NextStale]_vars

\* C16.  clear_pattern and delete_cache_pattern on a backend that does not
\* answer return without raising and remove nothing; and no entry is served
\* for longer than its ttl: a get that returns a value returns it less than
\* ttl seconds after the set that wrote it, and no entry is left in the store
\* once its ttl has elapsed.
C16_StaleEntriesBoundedByTtl ==
    [][/\ (started' = started + 1
           /\ ret'.op \in {"clear_pattern", "delete_cache_pattern"}
           /\ ~ret'.reachable) =>
              (~ret'.exc /\ ret'.count = 0 /\ kv' = kv)
       /\ (started' = started + 1 /\ ret'.op = "get" /\ ret'.value # PyNone) =>
              /\ written[ret'.arg].has
              /\ clock < written[ret'.arg].at
                            + UsedTtl(written[ret'.arg].ttl) * TicksPerSecond
       /\ \A k \in Keys :
              kv'[k].present =>
                 /\ written'[k].has
                 /\ clock' < written'[k].at
                              + UsedTtl(written'[k].ttl) * TicksPerSecond]_vars

\* A clear_pattern that got no answer left a matching entry in the store.
C16_Witness ==
    /\ ret.op = "clear_pattern"
    /\ ~ret.reachable
    /\ ret.count = 0
    /\ \E k \in Keys : kv[k].present /\ GlobMatch(ret.arg, k)

\* The entry that could not be removed is no longer served once its ttl has
\* elapsed.
C16_WitnessExpired ==
    /\ ret.op = "get"
    /\ ret.reachable
    /\ ret.value = PyNone
    /\ written[ret.arg].has
    /\ clock >= written[ret.arg].at + UsedTtl(written[ret.arg].ttl) * TicksPerSecond

\* ======================================================================
\* Payloads that do not decode, values that do not encode
\* ======================================================================

\* A text that is not JSON, as another writer of the same Redis may leave.
NotJson == Json("invalid", "{not json", {})

\* A dict whose key is a tuple: json.dumps raises TypeError for it.
NotEncodable == PyDict({Item("tuple", "(1, 2)", "Compra")})

\* What Redis may hold under a key when the process starts: nothing, a JSON
\* text, or a text that is not JSON.
StoredPayloads ==
    {NoEntry} \cup
    { [present |-> TRUE, payload |-> t, expire_at |-> 2 * TicksPerSecond] :
         t \in {Json("string", "v", {}), NotJson} }

InitCodec ==
    /\ InitLimiter(SmallN, SmallW)
    /\ kv \in [Keys -> StoredPayloads]
    /\ ret = NoRet
    /\ written = [k \in Keys |-> NoWrite]
    /\ gos = [t \in Callers |-> Idle]
    /\ gos_done = <<>>
    /\ producer_value = PyNone
    /\ InitAdmin
    /\ redis_up \in BOOLEAN

NextCodec ==
    \/ \E k \in Keys : GetCall(k, "none")
    \/ \E k \in {<<"a", "1">>, <<"b", "1">>}, v \in {PyStr("v"), NotEncodable} :
          SetCall(k, v, 1, "none")
    \/ Tick

SpecCodec == InitCodec /\ [][NextCodec]_vars

\* C17.  get on a stored payload that does not decode returns None and does
\* not raise; set with a value that does not encode returns False, does not
\* raise and leaves the entry of every key as it was.
C17_CodecFailuresAreSwallowed ==
    [][started' = started + 1 =>
          /\ (ret'.op = "get" /\ kv[ret'.arg].present
                              /\ kv[ret'.arg].payload = NotJson) =>
                 (~ret'.exc /\ ret'.value = PyNone /\ kv' = kv)
          /\ (ret'.op = "set" /\ ret'.given = NotEncodable) =>
                 (~ret'.exc /\ ~ret'.flag /\ kv' = kv)]_vars

\* A set of a value that does not encode has returned False on a reachable
\* backend while the key holds the entry it held before.
C17_Witness ==
    /\ ret.op = "set"
    /\ ret.given = NotEncodable
    /\ ret.reachable
    /\ ~ret.flag
    /\ kv[ret.arg].present

\* A get of a payload that does not decode has returned None.
C17_WitnessDecode ==
    /\ ret.op = "get"
    /\ ret.reachable
    /\ kv[ret.arg].present
    /\ kv[ret.arg].payload = NotJson
    /\ ret.value = PyNone

\* ======================================================================
\* Isolation between clients
\* ======================================================================

\* The entries of the ledger of client c in the store the limiter uses now.
OwnCount(c) ==
    IF redis_up THEN ZCard(zsets[c].set) ELSE Len(MemGet(memory_store, c))

\* C18.  The operations run for a client read and write the ledger of that
\* client only: a step of dispatch for client c leaves the ledger of every
\* other client unchanged in both stores, and the decision and the remaining
\* value it computes are functions of the ledger of c alone.  So what another
\* client is answered does not depend on the requests of c.
C18_ClientsAreIsolated ==
    [][\A h \in Handlers :
          (req[h].client \in Clients /\ pc'[h] # pc[h]) =>
             LET c == req[h].client
             IN  /\ \A d \in Clients \ {c} :
                       /\ zsets'[d] = zsets[d]
                       /\ (d \in DOMAIN memory_store') = (d \in DOMAIN memory_store)
                       /\ MemGet(memory_store', d) = MemGet(memory_store, d)
                 /\ (pc[h] = "dispatch" /\ pc'[h] \in {"record", "rejected"}) =>
                        (pc'[h] = "record") = (FreshCount(c) < requests_per_minute)
                 /\ (pc[h] = "remaining" /\ pc'[h] = "done") =>
                        resp'[h].remaining = Max(0, requests_per_minute - OwnCount(c))]_vars

\* user:7 is answered with its full quota less one while ip:1.2.3.4 has
\* used up its own.
C18_Witness ==
    \E h \in Handlers :
        /\ req[h].client = "user:7"
        /\ pc[h] = "done"
        /\ resp[h].remaining = requests_per_minute - 1
        /\ OwnCount("ip:1.2.3.4") >= requests_per_minute

\* ======================================================================
\* Recording only adds
\* ======================================================================

\* What _is_request_allowed would count for client c at tick t if nothing
\* but time passed until then: in Redis (the key gone once its expiry is
\* reached) and in memory_store.
RedisCountAt(zs, c, t) ==
    IF zs[c].expire_at # NoExpiry /\ zs[c].expire_at <= t THEN 0
    ELSE Cardinality({e \in zs[c].set : e.score > IntTime(t) - window_size})

MemCountAt(ms, c, t) ==
    Cardinality({i \in 1..Len(MemGet(ms, c)) :
                    MemGet(ms, c)[i] * TicksPerSecond > t - window_size * TicksPerSecond})

\* The ticks from now until every timestamp of now has left the window.
Horizon == clock..(clock + (window_size + 1) * TicksPerSecond)

\* C19.  _record_request removes no timestamp from the ledger of any client
\* in either store, and at no later moment is the in-window count of a client
\* lower than it would be had the call not run; so a later
\* _is_request_allowed can be turned by it from true to false only.  This
\* holds also when the call fails half way (zadd done, expire not).
C19_RecordOnlyAdds ==
    [][\A h \in Handlers :
          (pc[h] = "record" /\ pc'[h] # "record") =>
             \A d \in Clients :
                /\ ZScores(d) \subseteq {e.score : e \in zsets'[d].set}
                /\ Len(MemGet(memory_store', d)) >= Len(MemGet(memory_store, d))
                /\ SubSeq(MemGet(memory_store', d), 1, Len(MemGet(memory_store, d)))
                      = MemGet(memory_store, d)
                /\ \A t \in Horizon :
                      /\ RedisCountAt(zsets', d, t) >= RedisCountAt(zsets, d, t)
                      /\ MemCountAt(memory_store', d, t) >= MemCountAt(memory_store, d, t)
                      /\ (RedisCountAt(zsets', d, t) < requests_per_minute) =>
                            (RedisCountAt(zsets, d, t) < requests_per_minute)
                      /\ (MemCountAt(memory_store', d, t) < requests_per_minute) =>
                            (MemCountAt(memory_store, d, t) < requests_per_minute)]_vars

\* A request was recorded for a client whose ledger already held a
\* timestamp, and the ledger now holds both.
C19_Witness ==
    \E h \in Handlers :
        /\ pc[h] = "call_next"
        /\ resp[h].recorded
        /\ OwnCount(req[h].client) >= 2

\* ======================================================================
\* memory_store under threads
\* ======================================================================

\* _is_request_allowed_memory, lines 106-109, right-hand side: the list
\* comprehension reads the client's list and builds the filtered list.
\* Another thread may run before the result is assigned.
MemoryFilter(h) ==
    /\ pc[h] = "dispatch"
    /\ req[h].path \notin ExemptPaths
    /\ ~HealthCheck
    /\ LET c == req[h].client
           window_start == clock - window_size * TicksPerSecond
           InWindow(timestamp) == timestamp * TicksPerSecond > window_start
       IN  /\ resp' = [resp EXCEPT ![h].kept =
                         SelectSeq(MemGet(memory_store, c), InWindow)]
           /\ memory_store' = MemPut(memory_store, c, MemGet(memory_store, c))
    /\ pc' = [pc EXCEPT ![h] = "assign"]
    /\ UNCHANGED <<cacheVars, gosVars, requests_per_minute, window_size, func_rate_limit, clock,
                   redis_up, zsets, req, started, log>>

\* _is_request_allowed_memory, line 106 (the assignment) and line 111, then
\* dispatch, lines 33-40.
MemoryAssign(h) ==
    /\ pc[h] = "assign"
    /\ memory_store' = MemPut(memory_store, req[h].client, resp[h].kept)
    /\ IF Len(resp[h].kept) < requests_per_minute
       THEN /\ pc' = [pc EXCEPT ![h] = "record"]
            /\ resp' = resp
       ELSE /\ pc' = [pc EXCEPT ![h] = "rejected"]
            /\ resp' = [resp EXCEPT ![h].status = 429,
                                    ![h].retry_after = window_size]
    /\ UNCHANGED <<cacheVars, gosVars, requests_per_minute, window_size, func_rate_limit, clock,
                   redis_up, zsets, req, started, log>>

\* Handlers of one client running as threads while the backend is down.
InitThreads ==
    /\ InitLimiter(SmallN, SmallW)
    /\ InitCache
    /\ producer_value = PyNone
    /\ InitAdmin
    /\ redis_up = FALSE

NextThreads ==
    \/ \E h \in Handlers : StartBurst(h, "ip:1.2.3.4", "/api/v1/pca")
    \/ \E h \in Handlers : MemoryFilter(h)
    \/ \E h \in Handlers : MemoryAssign(h)
    \/ \E h \in Handlers : DispatchRecord(h, "none")
    \/ \E h \in Handlers : CallNextReturns(h) /\ pc[h] = "call_next"
    \/ \E h \in Handlers : DispatchRemaining(h, "none")
    \/ Tick

SpecThreads == InitThreads /\ [][NextThreads]_vars

\* The same handlers as cooperative tasks: _is_request_allowed_memory has no
\* await and runs as one step.
InitTasks == InitThreads

NextTasks ==
    \/ \E h \in Handlers : StartBurst(h, "ip:1.2.3.4", "/api/v1/pca")
    \/ \E h \in Handlers : DispatchCheck(h, "none")
    \/ \E h \in Handlers : DispatchRecord(h, "none")
    \/ \E h \in Handlers : CallNextReturns(h) /\ pc[h] = "call_next"
    \/ \E h \in Handlers : DispatchRemaining(h, "none")
    \/ Tick

SpecTasks == InitTasks /\ [][NextTasks]_vars

\* C20.  With the backend down and handlers of one client running
\* concurrently, no timestamp recorded in memory_store is lost: the pruning
\* of _is_request_allowed_memory drops only timestamps outside the window,
\* so the number of in-window timestamps of the client is the same after it
\* as before, whatever another handler appended in between.
C20_NoRecordedTimestampLost ==
    [][\A h \in Handlers :
          (pc[h] \in {"dispatch", "assign"} /\ pc'[h] # pc[h]) =>
             InWindowCount(MemGet(memory_store', req[h].client))
                = InWindowCount(MemGet(memory_store, req[h].client))]_vars

\* ======================================================================
\* get_or_set called concurrently
\* ======================================================================

\* Two callers, each with its own producer, whose calls interleave at the
\* awaits of get_or_set; the backend answers.
InitStampede ==
    /\ InitLimiter(SmallN, SmallW)
    /\ InitCache
    /\ producer_value = PyNone
    /\ InitAdmin
    /\ redis_up = TRUE

\* What the producers of the two callers return.
StampedeResults ==
    { PyStr("v"), PyInt("7"), PyDateTime("2024-01-01 00:00:00"),
      PyDict({Item("tuple", "(1, 2)", "Compra")}) }

NextStampede ==
    \/ \E t \in Callers, k \in {<<"a", "1">>, <<"b", "1">>},
          v \in StampedeResults : GosBeginWith(t, k, v)
    \/ \E t \in Callers : GosGet(t, "none")
    \/ \E t \in Callers : GosProduce(t, "none")
    \/ Tick

SpecStampede == InitStampede /\ [][NextStampede]_vars

\* The calls of the two callers have completed, on the same key, and both
\* invoked the producer.
BothProduced ==
    /\ Len(gos_done) = 2
    /\ gos_done[1].caller # gos_done[2].caller
    /\ gos_done[1].key = gos_done[2].key
    /\ gos_done[1].produced /\ gos_done[2].produced

\* C21.  When two concurrent get_or_set calls on the same absent key both
\* invoke the producer, each caller returns the result of its own producer,
\* and the entry left under the key is the stored form of the result of one
\* of the two producers (an entry is left as soon as one of the two results
\* can be encoded).
C21_StampedeKeepsOneResult ==
    BothProduced =>
        LET k == gos_done[1].key
            d1 == JsonDumps(gos_done[1].producer)
            d2 == JsonDumps(gos_done[2].producer)
        IN  /\ gos_done[1].result = gos_done[1].producer
            /\ gos_done[2].result = gos_done[2].producer
            /\ kv[k].present =>
                   \/ ~d1.exc /\ kv[k].payload = d1.text
                   \/ ~d2.exc /\ kv[k].payload = d2.text
            /\ (~d1.exc \/ ~d2.exc) => kv[k].present

\* The interleaving exists: both producers, which return different values,
\* were invoked for the same key, and the entry holds the second one's result.
C21_Witness ==
    /\ BothProduced
    /\ gos_done[1].producer = PyStr("v")
    /\ gos_done[2].producer = PyInt("7")
    /\ kv[gos_done[1].key].present
    /\ kv[gos_done[1].key].payload = Json("number", "7", {})

\* ======================================================================
\* DomainCacheService.update_all_caches
\* ======================================================================

\* Mutant: a getter that rebuilds its table and stores nothing.
DomainTableResultNoStore(name) == [exc |-> CacheGet(DomainKey(name), "none").exc, kv |-> kv]

\* One getter as update_all_caches awaits it: whether it raised, and the
\* store it leaves (only its own key can differ).
DomainTableResult(name) ==
    LET key == DomainKey(name)
        cached == CacheGet(key, "none")
        stored == CacheSet(key, DomainSource(name), DOMAIN_CACHE_TTL, "none")
    IN  IF cached.exc THEN [exc |-> TRUE, kv |-> kv]
        ELSE IF Truthy(cached.value) THEN [exc |-> FALSE, kv |-> kv]
        ELSE [exc |-> stored.exc, kv |-> stored.kv]

\* update_all_caches: the three getters one after the other, then the log line.
\* Each getter reads and writes its own key only.
UpdateAllCaches ==
    /\ CacheCall
    /\ LET after == [k \in DOMAIN kv |->
                       IF \E name \in DomainTables : k = DomainKey(name)
                       THEN LET name == CHOOSE n \in DomainTables : k = DomainKey(n)
                            IN  DomainTableResult(name).kv[k]
                       ELSE kv[k]]
       IN  /\ kv' = after
           /\ ret' = [NoRet EXCEPT
                        !.op = "update_all_caches",
                        !.exc = \E name \in DomainTables : DomainTableResult(name).exc,
                        !.reachable = redis_up]
           /\ written' = [k \in DOMAIN written |->
                            IF after[k] # kv[k]
                            THEN [has |-> TRUE,
                                  value |-> DomainSource(
                                      CHOOSE n \in DomainTables : k = DomainKey(n)),
                                  ttl |-> DOMAIN_CACHE_TTL, at |-> clock]
                            ELSE written[k]]

\* What Redis may hold under a domain key when the process starts: nothing, a
\* table stored earlier, an empty object, or a text that is not JSON.
DomainStored ==
    {NoEntry} \cup
    { [present |-> TRUE, payload |-> t, expire_at |-> 2 * TicksPerSecond] :
         t \in {Json("object", "", {[name |-> "1", value |-> "Compra"]}),
                Json("object", "", {}), NotJson} }

InitUpdateAll ==
    /\ InitLimiter(SmallN, SmallW)
    /\ kv \in [DomainKeys -> DomainStored]
    /\ ret = NoRet
    /\ written = [k \in DomainKeys |-> NoWrite]
    /\ gos = [t \in Callers |-> Idle]
    /\ gos_done = <<>>
    /\ producer_value = PyNone
    /\ InitAdmin
    /\ redis_up \in BOOLEAN

NextUpdateAll ==
    \/ UpdateAllCaches
    \/ Tick
    \/ RedisGoesDown
    \/ RedisComesBack

SpecUpdateAll == InitUpdateAll /\ [][NextUpdateAll]_vars

\* C22.  update_all_caches never raises; when the backend answers, the three
\* domain keys exist once it has completed; when the backend does not answer,
\* it completes and the cache is as it was.
C22_UpdateAllCachesFillsKeys ==
    [][(started' = started + 1 /\ ret'.op = "update_all_caches") =>
          /\ ~ret'.exc
          /\ ret'.reachable => \A k \in DomainKeys : kv'[k].present
          /\ ~ret'.reachable => kv' = kv]_vars

\* update_all_caches completed on a reachable backend and stored all three
\* tables itself.
C22_Witness ==
    /\ ret.op = "update_all_caches"
    /\ ret.reachable
    /\ \A k \in DomainKeys : written[k].has /\ written[k].at = clock /\ kv[k].present

\* update_all_caches completed on an unreachable backend.
C22_WitnessUnreachable ==
    /\ ret.op = "update_all_caches"
    /\ ~ret.reachable
    /\ ~ret.exc
    /\ \E k \in DomainKeys : ~kv[k].present

\* ======================================================================
\* listar_configuracoes against atualizar_configuracao
\* ======================================================================

\* cache_key = f"configuracoes_{categoria or 'all'}_{ativo}_{page}_{size}"
ConfigKeys == { <<"configuracoes_", "all_None_1_50">>,
                <<"configuracoes_", "geral_True_1_50">>,
                <<"admin_dashboard">> }

ListKeys == {k \in ConfigKeys : k[1] = "configuracoes_"}

\* Values an administrator gives to the configuration.
Valores == {"a", "b"}

\* The response built from the rows the query returned.
ConfigResponse(valor) == PyDict({Item("str", "valor", valor)})

\* listar_configuracoes up to the query: get_cache(cache_key); a truthy cached
\* result is returned as it is.
ListarGet(key) ==
    /\ admin["listar_configuracoes"].pc = "idle"
    /\ started < MaxCacheCalls
    /\ started' = started + 1
    /\ LET cached == CacheGet(key, "none")
       IN  /\ ret' = Returned("listar_configuracoes", key, cached, "none")
           /\ admin' = [admin EXCEPT !["listar_configuracoes"] =
                          IF Truthy(cached.value) THEN AdminIdle
                          ELSE [pc |-> "query", key |-> key, response |-> PyNone]]
    /\ UNCHANGED <<limiterVarsButStarted, kv, written, gos, gos_done,
                   producer_value, db>>

\* db.query(ConfiguracaoSistema) ... .all(), and the response built from it.
ListarQuery ==
    /\ admin["listar_configuracoes"].pc = "query"
    /\ admin' = [admin EXCEPT !["listar_configuracoes"].pc = "set",
                              !["listar_configuracoes"].response = ConfigResponse(db)]
    /\ UNCHANGED <<limiterVars, cacheVars, gos, gos_done, producer_value, db>>

\* set_cache(cache_key, response, ttl=3600); return response
ListarSet ==
    /\ admin["listar_configuracoes"].pc = "set"
    /\ LET key == admin["listar_configuracoes"].key
           response == admin["listar_configuracoes"].response
           r == CacheSet(key, response, 3600, "none")
       IN  /\ kv' = r.kv
           /\ ret' = [Returned("listar_configuracoes", key, r, "none")
                        EXCEPT !.value = response]
           /\ written' = IF r.flag
                         THEN [written EXCEPT ![key] =
                                 [has |-> TRUE, value |-> response, ttl |-> 3600,
                                  at |-> clock]]
                         ELSE written
    /\ admin' = [admin EXCEPT !["listar_configuracoes"] = AdminIdle]
    /\ UNCHANGED <<limiterVars, gos, gos_done, producer_value, db>>

\* atualizar_configuracao up to the commit: config.valor = valor; db.commit()
AtualizarCommit(valor) ==
    /\ admin["atualizar_configuracao"].pc = "idle"
    /\ started < MaxCacheCalls
    /\ started' = started + 1
    /\ db' = valor
    /\ admin' = [admin EXCEPT !["atualizar_configuracao"].pc = "clear"]
    /\ UNCHANGED <<limiterVarsButStarted, cacheVars, gos, gos_done, producer_value>>

\* await clear_cache_pattern("configuracoes_*"), then the response.
AtualizarClear ==
    /\ admin["atualizar_configuracao"].pc = "clear"
    /\ LET r == ClearPatternOn(kv, <<"configuracoes_", "*">>, "none")
       IN  /\ kv' = r.kv
           /\ written' = Forget(r.kv)
    /\ admin' = [admin EXCEPT !["atualizar_configuracao"] = AdminIdle]
    /\ UNCHANGED <<limiterVars, ret, gos, gos_done, producer_value, db>>

InitConfig ==
    /\ InitLimiter(SmallN, SmallW)
    /\ kv = [k \in ConfigKeys |-> NoEntry]
    /\ ret = NoRet
    /\ written = [k \in ConfigKeys |-> NoWrite]
    /\ gos = [t \in Callers |-> Idle]
    /\ gos_done = <<>>
    /\ producer_value = PyNone
    /\ InitAdmin
    /\ redis_up = TRUE

\* The two handlers run in different workers over the same Redis and the same
\* database: their Redis commands and database statements interleave.
NextConfig ==
    \/ \E key \in ListKeys : ListarGet(key)
    \/ ListarQuery
    \/ ListarSet
    \/ \E valor \in Valores : AtualizarCommit(valor)
    \/ AtualizarClear
    \/ Tick

SpecConfig == InitConfig /\ [][NextConfig]_vars

\* C23.  Once a cached read and a mutation of the configuration have both
\* completed, whatever their interleaving, every entry under configuracoes_*
\* was computed from the state the mutation left.
C23_NoStaleListAfterMutation ==
    (/\ admin["listar_configuracoes"].pc = "idle"
     /\ admin["atualizar_configuracao"].pc = "idle")
    => \A k \in ListKeys :
          kv[k].present => kv[k].payload = JsonDumps(ConfigResponse(db)).text

\* ======================================================================
\* cached reads of an entity: list, detail, statistics
\* ======================================================================

\* set_cache(key, value, ttl=None) called with one keyword argument: `ttl` is
\* its parameter; any other keyword raises TypeError at the call, before
\* CacheService.set runs.
SetCache(key, value, keyword, seconds) ==
    IF keyword = "ttl" THEN CacheSet(key, value, seconds, "none")
    ELSE CacheResult(TRUE, PyNone, FALSE, 0, kv)

\* The three cached reads of the PCA endpoints: handler, key, seconds given to
\* set_cache, and the keyword the handler gives them under.
EntityReads ==
    { [op |-> "listar_pcas", key |-> <<"pca_", "list_", "h_1_10">>,
       seconds |-> 300, keyword |-> "expire"],
      [op |-> "obter_pca", key |-> <<"pca_", "7">>,
       seconds |-> 600, keyword |-> "expire"],
      [op |-> "obter_estatisticas_pca", key |-> <<"pca_", "stats_", "2024_x">>,
       seconds |-> 900, keyword |-> "expire"] }

\* What the database query of a read gives.
EntityResult(op) == PyDict({Item("str", "from", op)})

\* A cached read: get_cache(cache_key); a truthy cached result is returned
\* (ret.flag); otherwise the result is computed, given to set_cache and
\* returned.  An exception of set_cache leaves the handler.
EntityRead(read) ==
    /\ CacheCall
    /\ LET cached == CacheGet(read.key, "none")
           result == EntityResult(read.op)
           stored == SetCache(read.key, result, read.keyword, read.seconds)
       IN  IF Truthy(cached.value)
           THEN /\ kv' = kv
                /\ written' = written
                /\ ret' = [Returned(read.op, read.key, cached, "none")
                             EXCEPT !.flag = TRUE]
           ELSE /\ kv' = stored.kv
                /\ written' = IF stored.flag
                              THEN [written EXCEPT ![read.key] =
                                      [has |-> TRUE, value |-> result,
                                       ttl |-> read.seconds, at |-> clock]]
                              ELSE written
                /\ ret' = [Returned(read.op, read.key, stored, "none")
                             EXCEPT !.flag = FALSE,
                                    !.value = IF stored.exc THEN PyNone ELSE result]

\* What Redis may hold under a key of the PCA endpoints when the process
\* starts: nothing, or a result stored earlier.
EntityStored ==
    {NoEntry} \cup
    { [present |-> TRUE, payload |-> Json("object", "", {[name |-> "from", value |-> "earlier"]}),
       expire_at |-> 2 * TicksPerSecond] }

InitReads ==
    /\ InitLimiter(SmallN, SmallW)
    /\ kv \in [PcaKeys -> EntityStored]
    /\ ret = NoRet
    /\ written = [k \in PcaKeys |-> NoWrite]
    /\ gos = [t \in Callers |-> Idle]
    /\ gos_done = <<>>
    /\ producer_value = PyNone
    /\ InitAdmin
    /\ redis_up \in BOOLEAN

NextReads ==
    \/ \E read \in EntityReads : EntityRead(read)
    \/ Tick
    \/ RedisGoesDown
    \/ RedisComesBack

SpecReads == InitReads /\ [][NextReads]_vars

\* C24.  A list, detail or statistics read that misses the cache on a
\* reachable backend returns the computed result and leaves it stored under
\* its key for the seconds of its kind (300, 600, 900).
C24_MissLeavesResultCached ==
    [][\A read \in EntityReads :
          (/\ started' = started + 1
           /\ ret'.op = read.op
           /\ ~ret'.flag
           /\ ret'.reachable)
          => /\ ~ret'.exc
             /\ ret'.value = EntityResult(read.op)
             /\ kv'[read.key].present
             /\ kv'[read.key].payload = JsonDumps(EntityResult(read.op)).text
             /\ kv'[read.key].expire_at = clock + read.seconds * TicksPerSecond]_vars

\* ======================================================================
\* SimpleLimiter.limit: the limit declared on a route
\* ======================================================================

\* Limits a route declares, in requests per window.
RouteRates == {1, SmallN + 1}

\* How the endpoints call the decorator factory: limiter.limit("100/minute")
\* gives the rate as its one positional argument; usuarios.py calls
\* rate_limit(max_requests=100, window_seconds=3600).
DecoratorForms == {"positional", "keywords"}

\* limit(self, rate) and the decorator it returns: func._rate_limit = rate.
\* Its only parameter is `rate`: a call with other keywords raises TypeError
\* while the endpoint module is imported.
Limit(form, rate) ==
    IF form = "positional"
    THEN [stored |-> TRUE, rate |-> rate, raised |-> FALSE]
    ELSE [stored |-> FALSE, rate |-> 0, raised |-> TRUE]

\* The application after the endpoint modules were imported, for every way of
\* decorating the handlers of the paths.
InitRoutes ==
    /\ InitLedger(SmallN, SmallW)
    /\ func_rate_limit \in
          [Paths -> {NoDecorator} \cup
                    {Limit(form, rate) : form \in DecoratorForms, rate \in RouteRates}]
    /\ InitCache
    /\ producer_value = PyNone
    /\ InitAdmin
    /\ redis_up \in BOOLEAN

\* Requests are served once every endpoint module was imported.
Imported == \A p \in Paths : ~func_rate_limit[p].raised

StartRouted(h, c, p) ==
    /\ Imported
    /\ Start(h, c, p)

NextRoutes ==
    \/ \E h \in Worker, c \in Clients, p \in Paths : StartRouted(h, c, p)
    \/ \E h \in Worker : DispatchExempt(h)
    \/ \E h \in Worker : DispatchCheck(h, "none")
    \/ \E h \in Worker : DispatchRecord(h, "none")
    \/ \E h \in Worker : CallNextReturns(h)
    \/ \E h \in Worker : DispatchRemaining(h, "none")
    \/ Tick

SpecRoutes == InitRoutes /\ [][NextRoutes]_vars

\* The decision of a step of dispatch is the one the global limit gives for
\* the ledger of the client, whatever the route declares, and the declared
\* limits are left as they are.
DecisionIgnoresDeclaredLimit ==
    /\ func_rate_limit' = func_rate_limit
    /\ \A h \in Handlers :
          (req[h].client \in Clients /\ pc[h] = "dispatch"
             /\ pc'[h] \in {"record", "rejected"}) =>
             (pc'[h] = "record") = (FreshCount(req[h].client) < requests_per_minute)

\* Every decorated handler carries the limit it was declared with.
DeclarationsStored ==
    \A p \in Paths : ~func_rate_limit[p].raised

\* C25.  The limit given to limiter.limit / rate_limit is stored on the
\* handler and nothing else happens with it: the admission decision for a
\* client and a ledger state is the same whatever the route declares, and
\* depends on the global requests_per_minute and window_size only.
C25_DeclaredLimitStoredNeverConsulted ==
    [][DeclarationsStored /\ DecisionIgnoresDeclaredLimit]_vars

\* ======================================================================
\* expiry of the Redis ledger
\* ======================================================================

\* The tick of the last request of c recorded during the last window_size
\* seconds.
LastRecord(c) == log[c][Len(log[c])]

\* C26.  On Redis, a ledger key that exists carries the expiry set by the last
\* _record_request of its client, window_size seconds after that record; so
\* the key of a client whose last record is window_size seconds old or older
\* no longer exists.
C26_LedgerExpiresAfterLastRecord ==
    redis_up =>
        \A c \in Clients :
            zsets[c].set # {} =>
                /\ log[c] # <<>>
                /\ zsets[c].expire_at = LastRecord(c) + window_size * TicksPerSecond
                /\ clock < zsets[c].expire_at

\* A request of the client was recorded on Redis, window_size seconds have
\* passed without another one, and its key is gone.
C26_Witness ==
    \E h \in Handlers :
        /\ redis_up
        /\ pc[h] = "done"
        /\ resp[h].recorded
        /\ req[h].client \in Clients
        /\ log[req[h].client] = <<>>
        /\ zsets[req[h].client] = EmptyKey

\* ======================================================================
\* one entry per recorded request
\* ======================================================================

\* C27.  Each completed _record_request(id) adds one entry to the ledger of id
\* in the store that serves it: the count read right after it is the count
\* read right before it plus one, also for a request recorded in the clock
\* second of an earlier request of the same client.
C27_RecordAddsOneEntry ==
    [][\A h \in Handlers :
          (pc[h] = "record" /\ pc'[h] = "call_next") =>
             LET c == req[h].client
             IN  IF redis_up
                 THEN ZCard(zsets'[c].set) = ZCard(zsets[c].set) + 1
                 ELSE Len(MemGet(memory_store', c)) =
                         Len(MemGet(memory_store, c)) + 1]_vars

\* ======================================================================
\* the limiter on Redis against the limiter on memory_store
\* ======================================================================

\* _record_request, the branch taken when the probe fails.
RecordRequestMemory(c) ==
    MemPut(memory_store, c, Append(MemGet(memory_store, c), IntTime(clock)))

\* _get_remaining_requests, the branch taken when the probe fails.
GetRemainingRequestsMemory(c) ==
    Max(0, requests_per_minute - Len(MemGet(memory_store, c)))

\* Two runs of the limiter fed the same requests at the same times: the
\* request of handler OnRedis is served by the Redis branches and works on
\* zsets, the request of handler OnMemory by the memory branches and works on
\* memory_store.
OnRedis == "h1"
OnMemory == "h2"

PairStart(c) ==
    /\ pc[OnRedis] \in Finished /\ pc[OnMemory] \in Finished
    /\ started < MaxRequests
    /\ started' = started + 1
    /\ pc' = [h \in Handlers |-> "dispatch"]
    /\ req' = [h \in Handlers |-> [client |-> c, path |-> "/api/v1/pca"]]
    /\ resp' = [h \in Handlers |-> NoResp]
    /\ UNCHANGED <<cacheVars, gosVars, requests_per_minute, window_size, func_rate_limit,
                   clock, redis_up, zsets, memory_store, log>>

\* _is_request_allowed in both runs.
PairCheck ==
    /\ pc[OnRedis] = "dispatch" /\ pc[OnMemory] = "dispatch"
    /\ LET c == req[OnRedis].client
           r == IsRequestAllowed(c, "none")
           m == IsRequestAllowedMemory(c)
       IN  /\ zsets' = r.zsets
           /\ memory_store' = m.memory_store
           /\ pc' = [h \in Handlers |->
                       IF h = OnRedis
                       THEN (IF r.value THEN "record" ELSE "rejected")
                       ELSE (IF m.value THEN "record" ELSE "rejected")]
           /\ resp' = [h \in Handlers |->
                         IF (h = OnRedis /\ ~r.value) \/ (h = OnMemory /\ ~m.value)
                         THEN [resp[h] EXCEPT !.status = 429,
                                              !.retry_after = window_size]
                         ELSE resp[h]]
    /\ UNCHANGED <<cacheVars, gosVars, requests_per_minute, window_size, func_rate_limit,
                   clock, redis_up, req, started, log>>

\* _record_request, call_next and _get_remaining_requests in the runs that
\* admitted the request.
PairRecord ==
    /\ {pc[OnRedis], pc[OnMemory]} \subseteq {"record", "rejected"}
    /\ "record" \in {pc[OnRedis], pc[OnMemory]}
    /\ LET c == req[OnRedis].client
       IN  /\ zsets' = IF pc[OnRedis] = "record"
                       THEN RecordRequest(c, "none").zsets ELSE zsets
           /\ memory_store' = IF pc[OnMemory] = "record"
                              THEN RecordRequestMemory(c) ELSE memory_store
           /\ log' = [log EXCEPT ![c] = Append(@, clock)]
    /\ pc' = [h \in Handlers |-> IF pc[h] = "record" THEN "remaining" ELSE pc[h]]
    /\ resp' = [h \in Handlers |->
                  IF pc[h] = "record"
                  THEN [resp[h] EXCEPT !.recorded = TRUE, !.passed = TRUE, !.status = 200]
                  ELSE resp[h]]
    /\ UNCHANGED <<cacheVars, gosVars, requests_per_minute, window_size, func_rate_limit,
                   clock, redis_up, req, started>>

PairRemaining ==
    /\ {pc[OnRedis], pc[OnMemory]} \subseteq {"remaining", "rejected"}
    /\ "remaining" \in {pc[OnRedis], pc[OnMemory]}
    /\ LET c == req[OnRedis].client
           value == [h \in Handlers |->
                       IF h = OnRedis THEN GetRemainingRequests(c, "none").value
                       ELSE GetRemainingRequestsMemory(c)]
       IN  resp' = [h \in Handlers |->
                      IF pc[h] = "remaining"
                      THEN [resp[h] EXCEPT !.limit = requests_per_minute,
                                           !.remaining = value[h],
                                           !.reset = IntTime(clock) + window_size]
                      ELSE resp[h]]
    /\ pc' = [h \in Handlers |-> IF pc[h] = "remaining" THEN "done" ELSE pc[h]]
    /\ UNCHANGED <<cacheVars, gosVars, requests_per_minute, window_size, func_rate_limit,
                   clock, redis_up, zsets, memory_store, req, started, log>>

\* Time passes between two requests.
PairTick ==
    /\ pc[OnRedis] \in Finished /\ pc[OnMemory] \in Finished
    /\ Tick

InitPair ==
    /\ InitLimiter(SmallN, SmallW)
    /\ InitCache
    /\ producer_value = PyNone
    /\ InitAdmin
    /\ redis_up = TRUE

NextPair ==
    \/ \E c \in Clients : PairStart(c)
    \/ PairCheck
    \/ PairRecord
    \/ PairRemaining
    \/ PairTick

SpecPair == InitPair /\ [][NextPair]_vars

\* C28.  From empty ledgers and for the same sequence of (client, time)
\* requests, the limiter on Redis and the limiter on memory_store answer every
\* request alike: both admit or both reject, and the admitted request gets the
\* same remaining value.
C28_StoresAreEquivalent ==
    /\ ({pc[OnRedis], pc[OnMemory]} \cap {"idle", "dispatch"} = {})
          => (pc[OnRedis] = "rejected") = (pc[OnMemory] = "rejected")
    /\ (pc[OnRedis] = "done" /\ pc[OnMemory] = "done")
          => resp[OnRedis].remaining = resp[OnMemory].remaining

\* ======================================================================
\* a backend that changes between healthy and unhealthy
\* ======================================================================

\* Enough requests to pass twice the limit.
StartFlapping(h, c, p) ==
    /\ started < 2 * requests_per_minute + 1
    /\ StartRequest(h, c, p)

\* One process, one request at a time; the outcome of every health probe is
\* free.
NextFlapping ==
    \/ \E h \in Worker : StartFlapping(h, "ip:1.2.3.4", "/api/v1/pca")
    \/ \E h \in Worker : DispatchCheck(h, "none")
    \/ \E h \in Worker : DispatchRecord(h, "none")
    \/ \E h \in Worker : CallNextReturns(h)
    \/ \E h \in Worker : DispatchRemaining(h, "none")
    \/ Tick
    \/ RedisGoesDown
    \/ RedisComesBack

SpecFlapping == Init /\ [][NextFlapping]_vars

\* C29.  With sequential requests and whatever the probes answer, a client is
\* admitted at most 2 * requests_per_minute times in any window_size seconds.
C29_AtMostTwiceNPerWindow ==
    \A c \in Clients : Len(log[c]) <= 2 * requests_per_minute

\* ======================================================================
\* memory_store and the clients that went away
\* ======================================================================

\* The process runs with Redis unreachable: every call is served by
\* memory_store.
InitAbandoned ==
    /\ Init
    /\ ~redis_up

\* A step of a handler that has a request in hand.
HandlerStep ==
    \E h \in Worker :
        \/ DispatchExempt(h)
        \/ DispatchCheck(h, "none")
        \/ DispatchRecord(h, "none")
        \/ CallNextReturns(h)
        \/ DispatchRemaining(h, "none")

\* Time passes, long enough for a timestamp to leave the window.
LateTick ==
    /\ clock < (window_size + 1) * TicksPerSecond
    /\ Advance

NextAbandoned ==
    \/ \E h \in Worker, c \in Clients, p \in Paths : Start(h, c, p)
    \/ HandlerStep
    \/ LateTick

\* Time passes and a handler that took a request finishes it; no client has to
\* send a request.
SpecAbandoned ==
    /\ InitAbandoned
    /\ [][NextAbandoned]_vars
    /\ WF_vars(LateTick)
    /\ WF_vars(HandlerStep)

\* memory_store holds, for client c, a timestamp that has left the window.
HoldsExpired(c) ==
    /\ c \in DOMAIN memory_store
    /\ \E i \in 1..Len(memory_store[c]) :
          memory_store[c][i] * TicksPerSecond <= clock - window_size * TicksPerSecond

\* C30.  memory_store does not keep the state of a client that went away: the
\* timestamps of a client that have left the window are eventually removed
\* from memory_store.
C30_AbandonedClientForgotten ==
    \A c \in Clients : HoldsExpired(c) ~> ~HoldsExpired(c)

====
